---- MODULE Spec2Model ----
(***************************************************************************)
(* A model of the enetx/fsm engine: the configuration built by the fluent  *)
(* builder (fsm.go New/Transition/TransitionWhen/OnEnter/OnExit/           *)
(* OnTransition), the transition engine (FSM.Trigger, executeCallback,     *)
(* CallEnter, SetState, Reset), the snapshot codec (json.go MarshalJSON,    *)
(* UnmarshalJSON), FSM.Clone and the SyncFSM facade with its RWMutex.      *)
(*                                                                         *)
(* Spec drives one engine; CodecSpec the codec on the engine of            *)
(* TestFSM_Serialization; SyncSpec two callers of one facade; CloneSpec a  *)
(* template and its clone; BuilderSpec a configuration under construction; *)
(* KeeperSpec and HolderSpec callers that keep what the engine or the      *)
(* facade returned; TwinSpec two facades of one engine; RaceSpec and       *)
(* FairSpec two goroutines on one facade; MatchSpec engines whose          *)
(* transitions overlap; PathSpec an engine driven by Trigger, CallEnter    *)
(* and Reset only; ReentrantSpec and NestedSpec callbacks that call the    *)
(* engine or the facade they run in.                                       *)
(*                                                                         *)
(* Guards, callbacks and hooks are user code.  Each call of one is a step  *)
(* of its own whose outcome (true/false/panic for a guard; nil, an error   *)
(* or a panic for a callback, with an optional write to Context.Data or    *)
(* Context.Meta) is chosen nondeterministically.  Every call is recorded   *)
(* in log, the order-recording test double of fsm_test.go.                 *)
(***************************************************************************)
EXTENDS Integers, Sequences, FiniteSets, TLC

(***************************************************************************)
(* Bounds of the model.                                                    *)
(***************************************************************************)
\* Once history holds this many entries, Trigger is called only with events
\* that have no transition from the current state.
MaxHistory == 3
\* Longest history array carried by a snapshot payload.
MaxPayloadHistory == 2
\* Most transitions registered from one state while the table is built.
MaxRegistered == 2

(***************************************************************************)
(* Values.                                                                 *)
(***************************************************************************)
\* Go's nil (a nil guard, a nil input, a nil error cause).
Nil == "<nil>"
\* The zero value of State: ErrCallback.State of a transition hook.
NoState == ""

\* The callers of the engine and the engine instances.
Threads == {1}
Engines == {1}

\* Keys and values the callbacks and snapshot payloads put in Data and Meta.
Keys == {"k"}
Vals == {"v"}
\* An absent key of a g.MapSafe.
NoVal == "<none>"
EmptyMap == [k \in Keys |-> NoVal]
Maps == [Keys -> Vals \cup {NoVal}]

\* What the error values carry from a failing callback.
Causes == {"boom"}

Last(s) == s[Len(s)]

\* All sequences over S of length at most n.
SeqsUpTo(S, n) == UNION {[1..k -> S] : k \in 0..n}

(***************************************************************************)
(* Context (context.go).                                                   *)
(***************************************************************************)
newContext(init) == [State |-> init, Input |-> Nil, Data |-> EmptyMap, Meta |-> EmptyMap]

(***************************************************************************)
(* The builder (fsm.go:17-130), as operators on the FSM's configuration.   *)
(***************************************************************************)
New(init) ==
    [initial      |-> init,
     transitions  |-> <<>>,
     onEnter      |-> <<>>,
     onExit       |-> <<>>,
     onTransition |-> <<>>]

\* g.Map.Entry(k).AndModify(push v).OrInsert(SliceOf(v))
EntryPush(m, k, v) ==
    IF k \in DOMAIN m THEN [m EXCEPT ![k] = Append(@, v)]
                      ELSE (k :> <<v>>) @@ m

TransitionWhen(f, from, event, to, guard) ==
    [f EXCEPT !.transitions = EntryPush(@, from, [event |-> event, to |-> to, guard |-> guard])]

Transition(f, from, event, to) == TransitionWhen(f, from, event, to, Nil)

OnEnter(f, state, cb) == [f EXCEPT !.onEnter = EntryPush(@, state, cb)]

OnExit(f, state, cb) == [f EXCEPT !.onExit = EntryPush(@, state, cb)]

OnTransition(f, hook) == [f EXCEPT !.onTransition = Append(@, hook)]

(***************************************************************************)
(* The configurations the engine is checked with.                          *)
(***************************************************************************)
\* Two guarded transitions on one event, a self-transition, a guarded
\* transition that is the only one of its state (c), a state that only has
\* an entry callback (d), two callbacks in every registry.
GuardedFSM ==
    LET f0 == New("a")
        f1 == TransitionWhen(f0, "a", "go", "b", "g1")
        f2 == TransitionWhen(f1, "a", "go", "c", "g2")
        f3 == Transition(f2, "a", "stay", "a")
        f4 == TransitionWhen(Transition(f3, "b", "back", "a"), "c", "go", "b", "g3")
        f5 == OnExit(OnExit(f4, "a", "exit_a1"), "a", "exit_a2")
        f6 == OnEnter(OnEnter(f5, "b", "enter_b1"), "b", "enter_b2")
        f7 == OnEnter(f6, "d", "enter_d")
    IN  OnTransition(OnTransition(f7, "hook1"), "hook2")

\* The job scenario of the README and of examples/errors.go.
JobFSM ==
    LET f0 == New("idle")
        f1 == Transition(f0, "idle", "start", "running")
        f2 == Transition(f1, "running", "pause", "paused")
        f3 == Transition(f2, "running", "stop", "stopped")
        f4 == Transition(f3, "paused", "resume", "running")
    IN  OnEnter(f4, "running", "enter_running")

Configs == {GuardedFSM, JobFSM}

\* One guarded transition and one callback of each kind, behind a facade.
SyncedFSM ==
    LET f0 == TransitionWhen(New("a"), "a", "go", "b", "g1")
        f1 == Transition(f0, "b", "back", "a")
        f2 == OnEnter(OnExit(f1, "a", "exit_a1"), "b", "enter_b1")
    IN  OnTransition(f2, "hook1")

\* The template of TestFSM_Serialization (fsm_test.go:214-215).
SerializationFSM == Transition(New("a"), "a", "next", "b")

VARIABLES
    initial,        \* FSM.initial
    transitions,    \* FSM.transitions: State -> sequence of transition
    onEnter,        \* FSM.onEnter: State -> sequence of Callback
    onExit,         \* FSM.onExit: State -> sequence of Callback
    onTransition,   \* FSM.onTransition: sequence of TransitionHook
    current,        \* FSM.current, per engine
    history,        \* FSM.history, per engine
    ctx,            \* the Context FSM.ctx points to, per engine
    stack,          \* per thread, the engine calls in flight (innermost last)
    log,            \* per thread, the guard/callback/hook calls of its latest call
    last,           \* per thread, the call it completed last and what that returned
    onlyTriggers,   \* no operation other than Trigger has been applied yet
    okTargets,      \* while onlyTriggers: the targets of the successful triggers
    mu,             \* SyncFSM.mu, per facade: the state of its sync.RWMutex
    caller,         \* per thread, the facade method it is in and how far it got
    held            \* per thread, what it keeps of the values earlier calls returned

cfgVars == <<initial, transitions, onEnter, onExit, onTransition>>
fsmVars == <<current, history, ctx>>
syncVars == <<mu, caller>>
vars == <<initial, transitions, onEnter, onExit, onTransition,
          current, history, ctx, stack, log, last, onlyTriggers, okTargets, mu, caller,
          held>>

(***************************************************************************)
(* FSM.States (fsm.go:74-86): the initial state, every key of the          *)
(* transition table and every target in it.                                *)
(***************************************************************************)
States ==
    {initial} \cup DOMAIN transitions
              \cup UNION {{transitions[s][i].to : i \in 1..Len(transitions[s])} : s \in DOMAIN transitions}

(***************************************************************************)
(* Error values (errors.go) and a panic that leaves the engine.            *)
(***************************************************************************)
NilErr == [kind |-> "nil"]

ErrInvalidTransition(from, event) ==
    [kind |-> "ErrInvalidTransition", From |-> from, Event |-> event]

ErrAmbiguousTransition(from, event) ==
    [kind |-> "ErrAmbiguousTransition", From |-> from, Event |-> event]

ErrCallback(hookType, state, err) ==
    [kind |-> "ErrCallback", HookType |-> hookType, State |-> state, Err |-> err]

ErrUnknownState(state) == [kind |-> "ErrUnknownState", State |-> state]

ErrUnmarshal == [kind |-> "failed to unmarshal fsm state"]

\* The error value a callback returns: its message.
Error(msg) == <<msg>>

\* fmt.Errorf("panic: %v", r)
PanicError(r) == <<"panic: ", r>>

\* A panic nothing in the engine recovers: it unwinds to the caller.
Panic(r) == [kind |-> "panic", value |-> r]

(***************************************************************************)
(* What one call of user code does.                                        *)
(***************************************************************************)
GuardResults == {"true", "false", "panic"}

CallbackOutcomes ==
    {[kind |-> "nil", cause |-> Nil]}
        \cup {[kind |-> k, cause |-> c] : k \in {"error", "panic"}, c \in Causes}

\* The write a callback makes through the Context before it returns.
Writes == {"none", "Data", "Meta"}

Write(c, w) ==
    CASE w = "Data" -> [c EXCEPT !.Data = [k \in Keys |-> CHOOSE v \in Vals : TRUE]]
      [] w = "Meta" -> [c EXCEPT !.Meta = [k \in Keys |-> CHOOSE v \in Vals : TRUE]]
      [] OTHER      -> c

(***************************************************************************)
(* FSM.executeCallback (fsm.go:209-221) and the inline wrapper of a        *)
(* transition hook (fsm.go:177-189): the error a call's outcome becomes.   *)
(***************************************************************************)
\* executeCallback without the deferred recover: a panic leaves the engine.
executeCallbackNoRecover(outcome, hookType, state) ==
    CASE outcome.kind = "panic" -> Panic(outcome.cause)
      [] outcome.kind = "error" -> ErrCallback(hookType, state, Error(outcome.cause))
      [] OTHER                  -> NilErr

executeCallback(outcome, hookType, state) ==
    CASE outcome.kind = "panic" -> ErrCallback(hookType, state, PanicError(outcome.cause))
      [] outcome.kind = "error" -> ErrCallback(hookType, state, Error(outcome.cause))
      [] OTHER                  -> NilErr

executeHook(outcome) ==
    CASE outcome.kind = "panic" -> ErrCallback("OnTransition", NoState, PanicError(outcome.cause))
      [] outcome.kind = "error" -> ErrCallback("OnTransition", NoState, Error(outcome.cause))
      [] OTHER                  -> NilErr

(***************************************************************************)
(* Calls in flight.                                                        *)
(***************************************************************************)
Top(t) == Last(stack[t])
Idle(t) == stack[t] = <<>>
InFlight(t, op, pc) == ~Idle(t) /\ Top(t).op = op /\ Top(t).pc = pc

\* m.Get(k) of a callback registry: the registered slice, or none.
Get(m, k) == IF k \in DOMAIN m THEN m[k] ELSE <<>>

Snapshot(e) == [current |-> current[e], history |-> history[e]]

\* What a snapshot carries of engine e (json.go:21-26).
Persisted(e) ==
    [current |-> current[e], history |-> history[e],
     Data |-> ctx[e].Data, Meta |-> ctx[e].Meta]

LogCall(t, entry) == log' = [log EXCEPT ![t] = Append(@, entry)]

Entry(kind, id, idx, args, e, outcome) ==
    [kind |-> kind, id |-> id, idx |-> idx, args |-> args,
     seenState |-> ctx[e].State, seenCurrent |-> current[e], outcome |-> outcome]

\* The frame of the innermost call of t moves on.
Goto(t, fr) == stack' = [stack EXCEPT ![t][Len(stack[t])] = fr]

\* The innermost call of t returns err (or unwinds with a panic).
Return(t, err) ==
    /\ stack' = [stack EXCEPT ![t] = SubSeq(@, 1, Len(@) - 1)]
    /\ last' = [last EXCEPT ![t] = [op |-> Top(t).op, e |-> Top(t).e, arg |-> Top(t).arg,
                                    pre |-> Top(t).pre, err |-> err]]

\* What last holds while a call is in flight.
Calling == [op |-> "calling", e |-> 0, arg |-> Nil, pre |-> Nil, err |-> NilErr]

\* A call of t that completes in one step; pre is what the caller noted of
\* the engine before the call.
CompleteFrom(t, op, e, arg, pre, err) ==
    /\ last' = [last EXCEPT ![t] = [op |-> op, e |-> e, arg |-> arg, pre |-> pre, err |-> err]]
    /\ log' = [log EXCEPT ![t] = <<>>]
    /\ UNCHANGED stack

Complete(t, op, e, arg, err) == CompleteFrom(t, op, e, arg, Nil, err)

\* The transitions of list the test double saw pass for event: the event
\* matches and the guard is nil or was seen to return true.
Passed(list, event, lg) ==
    {i \in 1..Len(list) :
        /\ list[i].event = event
        /\ \/ list[i].guard = Nil
           \/ \E j \in 1..Len(lg) : lg[j].kind = "Guard" /\ lg[j].idx = i /\ lg[j].outcome = "true"}

(***************************************************************************)
(* The arguments the callers pass.                                         *)
(***************************************************************************)
\* The events of the configuration and one that is not configured.
Events ==
    UNION {{transitions[s][i].event : i \in 1..Len(transitions[s])} : s \in DOMAIN transitions}
        \cup {"bogus"}

\* The variadic input of Trigger: none, or several values.
Inputs == {<<>>, <<"in1", "in2">>}

\* The states passed to SetState and CallEnter: the ones with entry callbacks
\* (a configured state, and one that is in no transition) and one nothing
\* mentions.
StateArgs == DOMAIN onEnter \cup {"zz"}

\* Some transition from state s is registered for event: the only triggers
\* that can lengthen history.
Configured(s, event) ==
    /\ s \in DOMAIN transitions
    /\ \E i \in 1..Len(transitions[s]) : transitions[s][i].event = event

(***************************************************************************)
(* FSM.Trigger (fsm.go:135-206).                                           *)
(***************************************************************************)
\* Trigger that stores an input when one is passed and otherwise leaves the
\* input of the call before in place.
TriggerKeepsInput(t, e, event, input) ==
    /\ Idle(t)
    /\ Len(history[e]) < MaxHistory \/ ~Configured(current[e], event)
    /\ ctx' = [ctx EXCEPT ![e].Input = IF Len(input) > 0 THEN input[1] ELSE @]
    /\ log' = [log EXCEPT ![t] = <<>>]
    /\ IF current[e] \notin DOMAIN transitions
         THEN /\ last' = [last EXCEPT ![t] =
                            [op |-> "Trigger", e |-> e, arg |-> [event |-> event, input |-> input],
                             pre |-> Snapshot(e),
                             err |-> ErrInvalidTransition(current[e], event)]]
              /\ UNCHANGED stack
         ELSE /\ stack' = [stack EXCEPT ![t] = Append(@,
                            [op |-> "Trigger", e |-> e, arg |-> [event |-> event, input |-> input],
                             pre |-> Snapshot(e), pc |-> "guard", idx |-> 1,
                             list |-> transitions[current[e]], matched |-> <<>>,
                             previousState |-> NoState, nextState |-> NoState])]
              /\ last' = [last EXCEPT ![t] = Calling]
    /\ UNCHANGED <<cfgVars, held, syncVars, current, history, onlyTriggers, okTargets>>

\* fsm.go:136-145: store the input, look up the transition list of current.
Trigger(t, e, event, input) ==
    /\ Idle(t)
    /\ Len(history[e]) < MaxHistory \/ ~Configured(current[e], event)
    /\ ctx' = [ctx EXCEPT ![e].Input = IF Len(input) > 0 THEN input[1] ELSE Nil]
    /\ log' = [log EXCEPT ![t] = <<>>]
    /\ IF current[e] \notin DOMAIN transitions
         THEN /\ last' = [last EXCEPT ![t] =
                            [op |-> "Trigger", e |-> e, arg |-> [event |-> event, input |-> input],
                             pre |-> Snapshot(e),
                             err |-> ErrInvalidTransition(current[e], event)]]
              /\ UNCHANGED stack
         ELSE /\ stack' = [stack EXCEPT ![t] = Append(@,
                            [op |-> "Trigger", e |-> e, arg |-> [event |-> event, input |-> input],
                             pre |-> Snapshot(e), pc |-> "guard", idx |-> 1,
                             list |-> transitions[current[e]], matched |-> <<>>,
                             previousState |-> NoState, nextState |-> NoState])]
              /\ last' = [last EXCEPT ![t] = Calling]
    /\ UNCHANGED <<cfgVars, held, syncVars, current, history, onlyTriggers, okTargets>>

\* TriggerGuard with the guard test inverted: a transition is excluded when
\* its guard returns true.
TriggerGuardInverted(t) ==
    /\ InFlight(t, "Trigger", "guard")
    /\ LET fr == Top(t)
           tr == fr.list[fr.idx]
       IN  /\ fr.idx <= Len(fr.list)
           /\ IF tr.event # fr.arg.event
                THEN /\ Goto(t, [fr EXCEPT !.idx = @ + 1])
                     /\ UNCHANGED <<log, last>>
                ELSE IF tr.guard = Nil
                THEN /\ Goto(t, [fr EXCEPT !.idx = @ + 1, !.matched = Append(@, tr)])
                     /\ UNCHANGED <<log, last>>
                ELSE \E r \in GuardResults :
                     /\ LogCall(t, Entry("Guard", tr.guard, fr.idx, <<>>, fr.e, r))
                     /\ CASE r = "false" -> /\ Goto(t, [fr EXCEPT !.idx = @ + 1, !.matched = Append(@, tr)])
                                            /\ UNCHANGED last
                          [] r = "true"  -> /\ Goto(t, [fr EXCEPT !.idx = @ + 1])
                                            /\ UNCHANGED last
                          [] OTHER       -> Return(t, Panic("guard"))
    /\ UNCHANGED <<cfgVars, held, syncVars, fsmVars, onlyTriggers, okTargets>>

\* TriggerGuard as in an engine that stops looking once a transition
\* matched.
TriggerGuardShortCircuits(t) ==
    /\ InFlight(t, "Trigger", "guard")
    /\ LET fr == Top(t)
           tr == fr.list[fr.idx]
       IN  /\ fr.idx <= Len(fr.list)
           /\ IF tr.event # fr.arg.event
                THEN /\ Goto(t, [fr EXCEPT !.idx = @ + 1])
                     /\ UNCHANGED <<log, last>>
                ELSE IF tr.guard = Nil
                THEN /\ Goto(t, [fr EXCEPT !.idx = Len(fr.list) + 1, !.matched = Append(@, tr)])
                     /\ UNCHANGED <<log, last>>
                ELSE \E r \in GuardResults :
                     /\ LogCall(t, Entry("Guard", tr.guard, fr.idx, <<>>, fr.e, r))
                     /\ CASE r = "true"  -> /\ Goto(t, [fr EXCEPT !.idx = Len(fr.list) + 1,
                                                                   !.matched = Append(@, tr)])
                                            /\ UNCHANGED last
                          [] r = "false" -> /\ Goto(t, [fr EXCEPT !.idx = @ + 1])
                                            /\ UNCHANGED last
                          [] OTHER       -> Return(t, Panic("guard"))
    /\ UNCHANGED <<cfgVars, held, syncVars, fsmVars, onlyTriggers, okTargets>>

\* fsm.go:147-150: the filter looks at the next transition of the list; a
\* guard is called only when the event matches and the guard is not nil, and
\* a panic in it is not recovered.
TriggerGuard(t) ==
    /\ InFlight(t, "Trigger", "guard")
    /\ LET fr == Top(t)
           tr == fr.list[fr.idx]
       IN  /\ fr.idx <= Len(fr.list)
           /\ IF tr.event # fr.arg.event
                THEN /\ Goto(t, [fr EXCEPT !.idx = @ + 1])
                     /\ UNCHANGED <<log, last>>
                ELSE IF tr.guard = Nil
                THEN /\ Goto(t, [fr EXCEPT !.idx = @ + 1, !.matched = Append(@, tr)])
                     /\ UNCHANGED <<log, last>>
                ELSE \E r \in GuardResults :
                     /\ LogCall(t, Entry("Guard", tr.guard, fr.idx, <<>>, fr.e, r))
                     /\ CASE r = "true"  -> /\ Goto(t, [fr EXCEPT !.idx = @ + 1, !.matched = Append(@, tr)])
                                            /\ UNCHANGED last
                          [] r = "false" -> /\ Goto(t, [fr EXCEPT !.idx = @ + 1])
                                            /\ UNCHANGED last
                          [] OTHER       -> Return(t, Panic("guard"))
    /\ UNCHANGED <<cfgVars, held, syncVars, fsmVars, onlyTriggers, okTargets>>

\* TriggerMatch as in the engine that took the first of several matches.
TriggerMatchFirstWins(t) ==
    /\ InFlight(t, "Trigger", "guard")
    /\ LET fr == Top(t)
           e  == fr.e
       IN  /\ fr.idx > Len(fr.list)
           /\ IF fr.matched = <<>>
                THEN /\ Return(t, ErrInvalidTransition(current[e], fr.arg.event))
                     /\ UNCHANGED ctx
                ELSE /\ Goto(t, [fr EXCEPT !.pc = "exit", !.idx = 1,
                                           !.previousState = current[e],
                                           !.nextState = fr.matched[1].to])
                     /\ ctx' = [ctx EXCEPT ![e].State = current[e]]
                     /\ UNCHANGED last
    /\ UNCHANGED <<cfgVars, held, syncVars, current, history, log, onlyTriggers, okTargets>>

\* TriggerMatch as in an engine that treats an event without a match as
\* nothing to do.
TriggerMatchNoMatchIsNil(t) ==
    /\ InFlight(t, "Trigger", "guard")
    /\ LET fr == Top(t)
           e  == fr.e
       IN  /\ fr.idx > Len(fr.list)
           /\ IF fr.matched = <<>>
                THEN /\ Return(t, NilErr)
                     /\ UNCHANGED ctx
                ELSE IF Len(fr.matched) > 1
                THEN /\ Return(t, ErrAmbiguousTransition(current[e], fr.arg.event))
                     /\ UNCHANGED ctx
                ELSE /\ Goto(t, [fr EXCEPT !.pc = "exit", !.idx = 1,
                                           !.previousState = current[e],
                                           !.nextState = fr.matched[1].to])
                     /\ ctx' = [ctx EXCEPT ![e].State = current[e]]
                     /\ UNCHANGED last
    /\ UNCHANGED <<cfgVars, held, syncVars, current, history, log, onlyTriggers, okTargets>>

\* TriggerMatch as in an engine that calls several matches ambiguous only
\* when they lead to different states.
TriggerMatchAgreeingTargets(t) ==
    /\ InFlight(t, "Trigger", "guard")
    /\ LET fr == Top(t)
           e  == fr.e
       IN  /\ fr.idx > Len(fr.list)
           /\ IF fr.matched = <<>>
                THEN /\ Return(t, ErrInvalidTransition(current[e], fr.arg.event))
                     /\ UNCHANGED ctx
                ELSE IF \E i, j \in 1..Len(fr.matched) : fr.matched[i].to # fr.matched[j].to
                THEN /\ Return(t, ErrAmbiguousTransition(current[e], fr.arg.event))
                     /\ UNCHANGED ctx
                ELSE /\ Goto(t, [fr EXCEPT !.pc = "exit", !.idx = 1,
                                           !.previousState = current[e],
                                           !.nextState = fr.matched[1].to])
                     /\ ctx' = [ctx EXCEPT ![e].State = current[e]]
                     /\ UNCHANGED last
    /\ UNCHANGED <<cfgVars, held, syncVars, current, history, log, onlyTriggers, okTargets>>

\* fsm.go:152-164: no match, several matches, or the one transition to take.
TriggerMatch(t) ==
    /\ InFlight(t, "Trigger", "guard")
    /\ LET fr == Top(t)
           e  == fr.e
       IN  /\ fr.idx > Len(fr.list)
           /\ IF fr.matched = <<>>
                THEN /\ Return(t, ErrInvalidTransition(current[e], fr.arg.event))
                     /\ UNCHANGED ctx
                ELSE IF Len(fr.matched) > 1
                THEN /\ Return(t, ErrAmbiguousTransition(current[e], fr.arg.event))
                     /\ UNCHANGED ctx
                ELSE /\ Goto(t, [fr EXCEPT !.pc = "exit", !.idx = 1,
                                           !.previousState = current[e],
                                           !.nextState = fr.matched[1].to])
                     /\ ctx' = [ctx EXCEPT ![e].State = current[e]]
                     /\ UNCHANGED last
    /\ UNCHANGED <<cfgVars, held, syncVars, current, history, log, onlyTriggers, okTargets>>

\* fsm.go:166-172: the next exit callback of the source state.
TriggerExit(t) ==
    /\ InFlight(t, "Trigger", "exit")
    /\ LET fr  == Top(t)
           e   == fr.e
           cbs == Get(onExit, fr.previousState)
       IN  /\ fr.idx <= Len(cbs)
           /\ \E outcome \in CallbackOutcomes, w \in Writes :
                /\ LogCall(t, Entry("OnExit", cbs[fr.idx], fr.idx, <<>>, e, outcome))
                /\ ctx' = [ctx EXCEPT ![e] = Write(@, w)]
                /\ LET err == executeCallback(outcome, "OnExit", fr.previousState)
                   IN  IF err # NilErr
                         THEN Return(t, err)
                         ELSE /\ Goto(t, [fr EXCEPT !.idx = @ + 1])
                              /\ UNCHANGED last
    /\ UNCHANGED <<cfgVars, held, syncVars, current, history, onlyTriggers, okTargets>>

\* TriggerExited as in the engine that committed before its hooks ran.
TriggerExitedCommitting(t) ==
    /\ InFlight(t, "Trigger", "exit")
    /\ LET fr == Top(t)
       IN  /\ fr.idx > Len(Get(onExit, fr.previousState))
           /\ ctx' = [ctx EXCEPT ![fr.e].State = fr.nextState]
           /\ current' = [current EXCEPT ![fr.e] = fr.nextState]
           /\ Goto(t, [fr EXCEPT !.pc = "hook", !.idx = 1])
    /\ UNCHANGED <<cfgVars, held, syncVars, history, log, last, onlyTriggers, okTargets>>

\* TriggerExited as in an engine that goes from the exit callbacks straight to
\* the entry callbacks.
TriggerExitedSkippingHooks(t) ==
    /\ InFlight(t, "Trigger", "exit")
    /\ LET fr == Top(t)
       IN  /\ fr.idx > Len(Get(onExit, fr.previousState))
           /\ ctx' = [ctx EXCEPT ![fr.e].State = fr.nextState]
           /\ Goto(t, [fr EXCEPT !.pc = "enter", !.idx = 1])
    /\ UNCHANGED <<cfgVars, held, syncVars, current, history, log, last, onlyTriggers, okTargets>>

\* TriggerExited without the assignment of the target to the Context: hooks
\* and entry callbacks are handed a Context that names the source.
TriggerExitedKeepsContextState(t) ==
    /\ InFlight(t, "Trigger", "exit")
    /\ LET fr == Top(t)
       IN  /\ fr.idx > Len(Get(onExit, fr.previousState))
           /\ Goto(t, [fr EXCEPT !.pc = "hook", !.idx = 1])
    /\ UNCHANGED <<cfgVars, held, syncVars, fsmVars, log, last, onlyTriggers, okTargets>>

\* fsm.go:174: the exit callbacks are done, the Context names the target.
TriggerExited(t) ==
    /\ InFlight(t, "Trigger", "exit")
    /\ LET fr == Top(t)
       IN  /\ fr.idx > Len(Get(onExit, fr.previousState))
           /\ ctx' = [ctx EXCEPT ![fr.e].State = fr.nextState]
           /\ Goto(t, [fr EXCEPT !.pc = "hook", !.idx = 1])
    /\ UNCHANGED <<cfgVars, held, syncVars, current, history, log, last, onlyTriggers, okTargets>>

\* fsm.go:176-192: the next transition hook.
TriggerHook(t) ==
    /\ InFlight(t, "Trigger", "hook")
    /\ LET fr == Top(t)
           e  == fr.e
       IN  /\ fr.idx <= Len(onTransition)
           /\ \E outcome \in CallbackOutcomes, w \in Writes :
                /\ LogCall(t, Entry("OnTransition", onTransition[fr.idx], fr.idx,
                                    <<fr.previousState, fr.nextState, fr.arg.event>>, e, outcome))
                /\ ctx' = [ctx EXCEPT ![e] = Write(@, w)]
                /\ LET err == executeHook(outcome)
                   IN  IF err # NilErr
                         THEN Return(t, err)
                         ELSE /\ Goto(t, [fr EXCEPT !.idx = @ + 1])
                              /\ UNCHANGED last
    /\ UNCHANGED <<cfgVars, held, syncVars, current, history, onlyTriggers, okTargets>>

\* TriggerHooked as in an engine that commits once the hooks are done, before
\* the entry callbacks of the target.
TriggerHookedCommitting(t) ==
    /\ InFlight(t, "Trigger", "hook")
    /\ Top(t).idx > Len(onTransition)
    /\ current' = [current EXCEPT ![Top(t).e] = Top(t).nextState]
    /\ history' = [history EXCEPT ![Top(t).e] = Append(@, Top(t).nextState)]
    /\ Goto(t, [Top(t) EXCEPT !.pc = "enter", !.idx = 1])
    /\ UNCHANGED <<cfgVars, held, syncVars, ctx, log, last, onlyTriggers, okTargets>>

\* The hooks are done: on to the entry callbacks of the target (fsm.go:194).
TriggerHooked(t) ==
    /\ InFlight(t, "Trigger", "hook")
    /\ Top(t).idx > Len(onTransition)
    /\ Goto(t, [Top(t) EXCEPT !.pc = "enter", !.idx = 1])
    /\ UNCHANGED <<cfgVars, held, syncVars, fsmVars, log, last, onlyTriggers, okTargets>>

\* TriggerEnter as in an engine that undoes the writes to Data and Meta when
\* an entry callback fails.
TriggerEnterDiscardsWrites(t) ==
    /\ InFlight(t, "Trigger", "enter")
    /\ LET fr  == Top(t)
           e   == fr.e
           cbs == Get(onEnter, fr.nextState)
       IN  /\ fr.idx <= Len(cbs)
           /\ \E outcome \in CallbackOutcomes, w \in Writes :
                /\ LogCall(t, Entry("OnEnter", cbs[fr.idx], fr.idx, <<>>, e, outcome))
                /\ LET err == executeCallback(outcome, "OnEnter", fr.nextState)
                   IN  IF err # NilErr
                         THEN /\ ctx' = [ctx EXCEPT ![e].Data = EmptyMap, ![e].Meta = EmptyMap]
                              /\ Return(t, err)
                         ELSE /\ ctx' = [ctx EXCEPT ![e] = Write(@, w)]
                              /\ Goto(t, [fr EXCEPT !.idx = @ + 1])
                              /\ UNCHANGED last
    /\ UNCHANGED <<cfgVars, held, syncVars, current, history, onlyTriggers, okTargets>>

\* fsm.go:194-200: the next entry callback of the target state.
TriggerEnter(t) ==
    /\ InFlight(t, "Trigger", "enter")
    /\ LET fr  == Top(t)
           e   == fr.e
           cbs == Get(onEnter, fr.nextState)
       IN  /\ fr.idx <= Len(cbs)
           /\ \E outcome \in CallbackOutcomes, w \in Writes :
                /\ LogCall(t, Entry("OnEnter", cbs[fr.idx], fr.idx, <<>>, e, outcome))
                /\ ctx' = [ctx EXCEPT ![e] = Write(@, w)]
                /\ LET err == executeCallback(outcome, "OnEnter", fr.nextState)
                   IN  IF err # NilErr
                         THEN Return(t, err)
                         ELSE /\ Goto(t, [fr EXCEPT !.idx = @ + 1])
                              /\ UNCHANGED last
    /\ UNCHANGED <<cfgVars, held, syncVars, current, history, onlyTriggers, okTargets>>

\* TriggerCommit as in an engine that records a state in history only when
\* the state changes.
TriggerCommitChanges(t) ==
    /\ InFlight(t, "Trigger", "enter")
    /\ LET fr == Top(t)
           e  == fr.e
       IN  /\ fr.idx > Len(Get(onEnter, fr.nextState))
           /\ current' = [current EXCEPT ![e] = fr.nextState]
           /\ history' = [history EXCEPT ![e] =
                            IF fr.nextState = current[e] THEN @ ELSE Append(@, fr.nextState)]
           /\ Return(t, NilErr)
           /\ okTargets' =
                IF onlyTriggers
                  THEN LET list == transitions[fr.pre.current]
                       IN  Append(okTargets,
                                  {list[i].to : i \in Passed(list, fr.arg.event, log[t])})
                  ELSE okTargets
    /\ UNCHANGED <<cfgVars, held, syncVars, ctx, log, onlyTriggers>>

\* TriggerCommit as in an engine that keeps the latest two states only.
TriggerCommitCapped(t) ==
    /\ InFlight(t, "Trigger", "enter")
    /\ LET fr == Top(t)
           e  == fr.e
       IN  /\ fr.idx > Len(Get(onEnter, fr.nextState))
           /\ current' = [current EXCEPT ![e] = fr.nextState]
           /\ history' = [history EXCEPT ![e] =
                            IF Len(@) >= 2 THEN <<Last(@), fr.nextState>>
                                           ELSE Append(@, fr.nextState)]
           /\ Return(t, NilErr)
           /\ okTargets' =
                IF onlyTriggers
                  THEN LET list == transitions[fr.pre.current]
                       IN  Append(okTargets,
                                  {list[i].to : i \in Passed(list, fr.arg.event, log[t])})
                  ELSE okTargets
    /\ UNCHANGED <<cfgVars, held, syncVars, ctx, log, onlyTriggers>>

\* fsm.go:202-205: commit and return nil.
TriggerCommit(t) ==
    /\ InFlight(t, "Trigger", "enter")
    /\ LET fr == Top(t)
           e  == fr.e
       IN  /\ fr.idx > Len(Get(onEnter, fr.nextState))
           /\ current' = [current EXCEPT ![e] = fr.nextState]
           /\ history' = [history EXCEPT ![e] = Append(@, fr.nextState)]
           /\ Return(t, NilErr)
           /\ okTargets' =
                IF onlyTriggers
                  THEN LET list == transitions[fr.pre.current]
                       IN  Append(okTargets,
                                  {list[i].to : i \in Passed(list, fr.arg.event, log[t])})
                  ELSE okTargets
    /\ UNCHANGED <<cfgVars, held, syncVars, ctx, log, onlyTriggers>>

(***************************************************************************)
(* FSM.CallEnter (fsm.go:224-236).                                         *)
(***************************************************************************)
\* CallEnter as in the engine whose CallEnter did not name the state in the
\* Context (types.go:303-311).
CallEnterKeepsContextState(t, e, state) ==
    /\ Idle(t)
    /\ log' = [log EXCEPT ![t] = <<>>]
    /\ stack' = [stack EXCEPT ![t] = Append(@,
                    [op |-> "CallEnter", e |-> e, arg |-> state,
                     pre |-> [current |-> current[e], history |-> history[e],
                              Input |-> ctx[e].Input],
                     pc |-> "enter", idx |-> 1,
                     list |-> <<>>, matched |-> <<>>,
                     previousState |-> NoState, nextState |-> state])]
    /\ last' = [last EXCEPT ![t] = Calling]
    /\ onlyTriggers' = FALSE
    /\ okTargets' = <<>>
    /\ UNCHANGED <<cfgVars, held, syncVars, current, history, ctx>>

\* fsm.go:225: the Context names the state; the caller notes current,
\* history and Input before the call.
CallEnter(t, e, state) ==
    /\ Idle(t)
    /\ ctx' = [ctx EXCEPT ![e].State = state]
    /\ log' = [log EXCEPT ![t] = <<>>]
    /\ stack' = [stack EXCEPT ![t] = Append(@,
                    [op |-> "CallEnter", e |-> e, arg |-> state,
                     pre |-> [current |-> current[e], history |-> history[e],
                              Input |-> ctx[e].Input],
                     pc |-> "enter", idx |-> 1,
                     list |-> <<>>, matched |-> <<>>,
                     previousState |-> NoState, nextState |-> state])]
    /\ last' = [last EXCEPT ![t] = Calling]
    /\ onlyTriggers' = FALSE
    /\ okTargets' = <<>>
    /\ UNCHANGED <<cfgVars, held, syncVars, current, history>>

\* fsm.go:227-233: the next entry callback of the state.
CallEnterCallback(t) ==
    /\ InFlight(t, "CallEnter", "enter")
    /\ LET fr  == Top(t)
           e   == fr.e
           cbs == Get(onEnter, fr.nextState)
       IN  /\ fr.idx <= Len(cbs)
           /\ \E outcome \in CallbackOutcomes, w \in Writes :
                /\ LogCall(t, Entry("OnEnter", cbs[fr.idx], fr.idx, <<>>, e, outcome))
                /\ ctx' = [ctx EXCEPT ![e] = Write(@, w)]
                /\ LET err == executeCallback(outcome, "OnEnter", fr.nextState)
                   IN  IF err # NilErr
                         THEN Return(t, err)
                         ELSE /\ Goto(t, [fr EXCEPT !.idx = @ + 1])
                              /\ UNCHANGED last
    /\ UNCHANGED <<cfgVars, held, syncVars, current, history, onlyTriggers, okTargets>>

\* fsm.go:235: return nil.
CallEnterReturn(t) ==
    /\ InFlight(t, "CallEnter", "enter")
    /\ Top(t).idx > Len(Get(onEnter, Top(t).nextState))
    /\ Return(t, NilErr)
    /\ UNCHANGED <<cfgVars, held, syncVars, fsmVars, log, onlyTriggers, okTargets>>

(***************************************************************************)
(* FSM.SetState (fsm.go:68-71) and FSM.Reset (fsm.go:57-61).               *)
(***************************************************************************)
\* What SetState is to leave alone: the caller notes it before the call.
Kept(e) ==
    [history |-> history[e], Data |-> ctx[e].Data, Meta |-> ctx[e].Meta,
     Input |-> ctx[e].Input, cfg |-> cfgVars]

\* SetState that sets current only.
SetStateCurrentOnly(t, e, s) ==
    /\ Idle(t)
    /\ current' = [current EXCEPT ![e] = s]
    /\ CompleteFrom(t, "SetState", e, s, Kept(e), NilErr)
    /\ onlyTriggers' = FALSE
    /\ okTargets' = <<>>
    /\ UNCHANGED <<cfgVars, held, syncVars, history, ctx>>

\* SetState that records the forced state in history, as a transition does.
SetStateRecorded(t, e, s) ==
    /\ Idle(t)
    /\ current' = [current EXCEPT ![e] = s]
    /\ ctx' = [ctx EXCEPT ![e].State = s]
    /\ history' = [history EXCEPT ![e] = Append(@, s)]
    /\ CompleteFrom(t, "SetState", e, s, Kept(e), NilErr)
    /\ onlyTriggers' = FALSE
    /\ okTargets' = <<>>
    /\ UNCHANGED <<cfgVars, held, syncVars>>

SetState(t, e, s) ==
    /\ Idle(t)
    /\ current' = [current EXCEPT ![e] = s]
    /\ ctx' = [ctx EXCEPT ![e].State = s]
    /\ CompleteFrom(t, "SetState", e, s, Kept(e), NilErr)
    /\ onlyTriggers' = FALSE
    /\ okTargets' = <<>>
    /\ UNCHANGED <<cfgVars, held, syncVars, history>>

\* FSM.Current (fsm.go:51), FSM.History (fsm.go:54, a copy), FSM.Context
\* (fsm.go:48, the pointer) and FSM.ToDOT (graphviz.go:9-92: the state it
\* fills as current).
Current(e) == current[e]
History(e) == history[e]
Context(e) == [ptr |-> e]
ToDOT(e) == [start |-> initial, filled |-> {current[e]} \cap States]

\* A pointer to a Context that is no engine's, and no pointer.
Detached == [ptr |-> 0]
NoContext == [ptr |-> -1]

\* A caller that has kept nothing: no *Context, no slice History returned
\* (and so none that shares its array with an engine), no snapshot, no
\* error of a Trigger.
NothingHeld ==
    [context |-> NoContext, list |-> <<>>, shares |-> 0, snapshot |-> <<>>, result |-> <<>>]

\* What a caller keeps once engine e has let go of its Context: a pointer to
\* the Context of e now points to a Context no engine has.
Dropped(h, e) == IF h.context = Context(e) THEN [h EXCEPT !.context = Detached] ELSE h

\* What the caller of Reset notes before the call: the engine and its
\* configuration.
BeforeReset(e) == [state |-> Persisted(e), Input |-> ctx[e].Input, cfg |-> cfgVars]

\* Reset as in the engine that kept no history: history is left alone
\* (types.go:427-433).
ResetKeepsHistory(t, e) ==
    /\ Idle(t)
    /\ current' = [current EXCEPT ![e] = initial]
    /\ ctx' = [ctx EXCEPT ![e] = newContext(initial)]
    /\ CompleteFrom(t, "Reset", e, Nil, BeforeReset(e), NilErr)
    /\ onlyTriggers' = FALSE
    /\ okTargets' = <<>>
    /\ UNCHANGED <<cfgVars, held, syncVars, history>>

Reset(t, e) ==
    /\ Idle(t)
    /\ current' = [current EXCEPT ![e] = initial]
    /\ ctx' = [ctx EXCEPT ![e] = newContext(initial)]
    /\ history' = [history EXCEPT ![e] = <<initial>>]
    /\ CompleteFrom(t, "Reset", e, Nil, BeforeReset(e), NilErr)
    /\ onlyTriggers' = FALSE
    /\ okTargets' = <<>>
    /\ held' = [u \in DOMAIN held |-> Dropped(held[u], e)]
    /\ UNCHANGED <<cfgVars, syncVars>>

(***************************************************************************)
(* The snapshot decoder (json.go:32-56).                                   *)
(***************************************************************************)
\* The labels a payload names: the first state reached from the initial one,
\* and an unknown one.
PayloadStates == {transitions[initial][1].to, "zz"}

\* The keys of the JSON object a snapshot is: the json tags of FSMState
\* (json.go:12-17).
Fields == {"current", "history", "data", "meta"}

\* Values of type any that are not strings: an int the owner stores, and the
\* float64 that encoding/json decodes a JSON number into.
IntVal == "int(1)"
FloatVal == "float64(1)"

\* The JSON text of a string.
Quoted(v) == "\"" \o v \o "\""

\* json.Marshal of one value of a Data/Meta map (absent keys stay absent).
jsonMarshalValue(v) ==
    CASE v = NoVal               -> NoVal
      [] v \in {IntVal, FloatVal} -> "1"
      [] OTHER                   -> Quoted(v)

\* json.Unmarshal of one JSON text into a value of type any.
jsonUnmarshalValue(j) ==
    CASE j = NoVal -> NoVal
      [] j = "1"   -> FloatVal
      [] OTHER     -> CHOOSE v \in Vals : Quoted(v) = j

\* A payload json.Unmarshal rejects: not JSON, or a field of the wrong type.
Malformed ==
    [wellFormed |-> FALSE, fields |-> {}, current |-> NoState, history |-> <<>>,
     data |-> EmptyMap, meta |-> EmptyMap]

\* The complete payloads decoded: every one carries a Data entry and an
\* empty Meta.
Payloads ==
    {Malformed} \cup
    [wellFormed : {TRUE}, fields : {Fields}, current : {initial, "zz"},
     history : SeqsUpTo(PayloadStates, MaxPayloadHistory),
     data : {[k \in Keys |-> Quoted("v")]}, meta : {EmptyMap}]

\* json.Unmarshal(data, &state) (json.go:33-36): a key the object lacks
\* leaves the field of state at its zero value.
jsonUnmarshal(data) ==
    [ok |-> data.wellFormed,
     state |-> [Current |-> IF "current" \in data.fields THEN data.current ELSE NoState,
                History |-> IF "history" \in data.fields THEN data.history ELSE <<>>,
                Data |-> IF "data" \in data.fields
                           THEN [k \in Keys |-> jsonUnmarshalValue(data.data[k])]
                           ELSE EmptyMap,
                Meta |-> IF "meta" \in data.fields
                           THEN [k \in Keys |-> jsonUnmarshalValue(data.meta[k])]
                           ELSE EmptyMap]]

\* json.Marshal(state) of an FSMState (json.go:28).
jsonMarshal(state) ==
    [wellFormed |-> TRUE, fields |-> Fields,
     current |-> state.current, history |-> state.history,
     data |-> [k \in Keys |-> jsonMarshalValue(state.Data[k])],
     meta |-> [k \in Keys |-> jsonMarshalValue(state.Meta[k])]]

\* FSM.MarshalJSON (json.go:20-29): the bytes json.Marshal makes of current,
\* a copy of history and the entries of Data and Meta.
MarshalJSON(e) == jsonMarshal(Persisted(e))

\* The last history entry States() does not contain.
LastUnknown(h) ==
    LET bad == {i \in 1..Len(h) : h[i] \notin States}
    IN  h[CHOOSE i \in bad : \A j \in bad : i >= j]

\* json.go:43-47: the first history entry States() does not contain.
FirstUnknown(h) ==
    LET bad == {i \in 1..Len(h) : h[i] \notin States}
    IN  h[CHOOSE i \in bad : \A j \in bad : i <= j]

\* What the caller noted of the engine before a decode: it compares the
\* engine with it after a decode that failed, and after one that was fed the
\* engine's own encoding.
NotedBefore(e, data, err) ==
    IF err # NilErr \/ data = MarshalJSON(e)
      THEN [noted |-> TRUE, state |-> Persisted(e)]
      ELSE [noted |-> FALSE, state |-> Nil]

\* UnmarshalJSON that installs current and Data as soon as current is
\* validated, before it looks at history.
UnmarshalJSONInstallsEarly(t, e, data) ==
    /\ Idle(t)
    /\ LET r     == jsonUnmarshal(data)
           state == r.state
       IN  IF ~r.ok
             THEN /\ CompleteFrom(t, "UnmarshalJSON", e, data,
                                  NotedBefore(e, data, ErrUnmarshal), ErrUnmarshal)
                  /\ UNCHANGED fsmVars
             ELSE IF state.Current \notin States
             THEN /\ CompleteFrom(t, "UnmarshalJSON", e, data,
                                  NotedBefore(e, data, ErrUnknownState(state.Current)),
                                  ErrUnknownState(state.Current))
                  /\ UNCHANGED fsmVars
             ELSE IF \E i \in 1..Len(state.History) : state.History[i] \notin States
             THEN /\ current' = [current EXCEPT ![e] = state.Current]
                  /\ ctx' = [ctx EXCEPT ![e].State = state.Current, ![e].Data = state.Data]
                  /\ CompleteFrom(t, "UnmarshalJSON", e, data,
                                  NotedBefore(e, data, ErrUnknownState(FirstUnknown(state.History))),
                                  ErrUnknownState(FirstUnknown(state.History)))
                  /\ UNCHANGED history
             ELSE /\ current' = [current EXCEPT ![e] = state.Current]
                  /\ history' = [history EXCEPT ![e] = state.History]
                  /\ ctx' = [ctx EXCEPT ![e].State = state.Current,
                                        ![e].Data = state.Data,
                                        ![e].Meta = state.Meta]
                  /\ CompleteFrom(t, "UnmarshalJSON", e, data,
                                  NotedBefore(e, data, NilErr), NilErr)
    /\ onlyTriggers' = FALSE
    /\ okTargets' = <<>>
    /\ held' = [u \in DOMAIN held |-> Dropped(held[u], e)]
    /\ UNCHANGED <<cfgVars, syncVars>>

\* UnmarshalJSON as in an engine that also refuses a history that is empty
\* or does not end with the payload's current.
UnmarshalJSONChecksHistoryEnd(t, e, data) ==
    /\ Idle(t)
    /\ LET r     == jsonUnmarshal(data)
           state == r.state
           err   == IF ~r.ok THEN ErrUnmarshal
                    ELSE IF state.Current \notin States THEN ErrUnknownState(state.Current)
                    ELSE IF \E i \in 1..Len(state.History) : state.History[i] \notin States
                    THEN ErrUnknownState(FirstUnknown(state.History))
                    ELSE IF state.History = <<>> \/ Last(state.History) # state.Current
                    THEN ErrUnknownState(state.Current)
                    ELSE NilErr
       IN  /\ IF err # NilErr
                THEN UNCHANGED fsmVars
                ELSE /\ current' = [current EXCEPT ![e] = state.Current]
                     /\ history' = [history EXCEPT ![e] = state.History]
                     /\ ctx' = [ctx EXCEPT ![e].State = state.Current,
                                           ![e].Data = state.Data,
                                           ![e].Meta = state.Meta]
           /\ CompleteFrom(t, "UnmarshalJSON", e, data, NotedBefore(e, data, err), err)
    /\ onlyTriggers' = FALSE
    /\ okTargets' = <<>>
    /\ UNCHANGED <<cfgVars, held, syncVars>>

\* FSM.UnmarshalJSON (json.go:32-56): parse, validate current, validate
\* history, and only then assign.
UnmarshalJSON(t, e, data) ==
    /\ Idle(t)
    /\ LET r     == jsonUnmarshal(data)
           state == r.state
       IN  IF ~r.ok
             THEN /\ CompleteFrom(t, "UnmarshalJSON", e, data,
                                  NotedBefore(e, data, ErrUnmarshal), ErrUnmarshal)
                  /\ UNCHANGED fsmVars
             ELSE IF state.Current \notin States
             THEN /\ CompleteFrom(t, "UnmarshalJSON", e, data,
                                  NotedBefore(e, data, ErrUnknownState(state.Current)),
                                  ErrUnknownState(state.Current))
                  /\ UNCHANGED fsmVars
             ELSE IF \E i \in 1..Len(state.History) : state.History[i] \notin States
             THEN /\ CompleteFrom(t, "UnmarshalJSON", e, data,
                                  NotedBefore(e, data, ErrUnknownState(FirstUnknown(state.History))),
                                  ErrUnknownState(FirstUnknown(state.History)))
                  /\ UNCHANGED fsmVars
             ELSE /\ current' = [current EXCEPT ![e] = state.Current]
                  /\ history' = [history EXCEPT ![e] = state.History]
                  /\ ctx' = [ctx EXCEPT ![e].State = state.Current,
                                        ![e].Data = state.Data,
                                        ![e].Meta = state.Meta]
                  /\ CompleteFrom(t, "UnmarshalJSON", e, data,
                                  NotedBefore(e, data, NilErr), NilErr)
    /\ onlyTriggers' = FALSE
    /\ okTargets' = <<>>
    /\ UNCHANGED <<cfgVars, held, syncVars>>

(***************************************************************************)
(* SyncFSM (types.go:47-50): its sync.RWMutex and the callers in its       *)
(* methods.                                                                *)
(***************************************************************************)
\* The zero value of sync.RWMutex: not write-locked, no reader.
RWMutex == [w |-> FALSE, r |-> 0]

\* A thread that is in no method of a facade.
Outside == [op |-> Nil, pc |-> "out", sync |-> 0]

(***************************************************************************)
(* The engine after New (fsm.go:17-28), configured by the builder, driven  *)
(* by one caller.                                                          *)
(***************************************************************************)
InitWith(configs, threads, engines, facades) ==
    /\ \E f \in configs :
         /\ initial = f.initial
         /\ transitions = f.transitions
         /\ onEnter = f.onEnter
         /\ onExit = f.onExit
         /\ onTransition = f.onTransition
    /\ current = [e \in engines |-> initial]
    /\ history = [e \in engines |-> <<initial>>]
    /\ ctx = [e \in engines |-> newContext(initial)]
    /\ stack = [t \in threads |-> <<>>]
    /\ log = [t \in threads |-> <<>>]
    /\ last = [t \in threads |-> [op |-> "New", e |-> 1, arg |-> Nil, pre |-> Nil, err |-> NilErr]]
    /\ onlyTriggers = TRUE
    /\ okTargets = <<>>
    /\ mu = [s \in facades |-> RWMutex]
    /\ caller = [t \in threads |-> Outside]
    /\ held = [t \in threads |-> NothingHeld]

Init == InitWith(Configs, Threads, Engines, {})

Next ==
    \/ \E t \in Threads, e \in Engines, event \in Events, input \in Inputs : Trigger(t, e, event, input)
    \/ \E t \in Threads : TriggerGuard(t)
    \/ \E t \in Threads : TriggerMatch(t)
    \/ \E t \in Threads : TriggerExit(t)
    \/ \E t \in Threads : TriggerExited(t)
    \/ \E t \in Threads : TriggerHook(t)
    \/ \E t \in Threads : TriggerHooked(t)
    \/ \E t \in Threads : TriggerEnter(t)
    \/ \E t \in Threads : TriggerCommit(t)
    \/ \E t \in Threads, e \in Engines, s \in StateArgs : CallEnter(t, e, s)
    \/ \E t \in Threads : CallEnterCallback(t)
    \/ \E t \in Threads : CallEnterReturn(t)
    \/ \E t \in Threads, e \in Engines, s \in StateArgs : SetState(t, e, s)
    \/ \E t \in Threads, e \in Engines : Reset(t, e)
    \/ \E t \in Threads, e \in Engines, data \in Payloads : UnmarshalJSON(t, e, data)

Spec == Init /\ [][Next]_vars

(***************************************************************************)
(* The snapshot codec on its own: one engine whose owner forces its state, *)
(* resets it, writes to Data and Meta through FSM.Context(), feeds it      *)
(* payloads of every shape and feeds it its own encoding.                  *)
(***************************************************************************)
\* f.Context().Data.Set(k, v) or f.Context().Meta.Set(k, v) by the owner of
\* the engine (fsm.go:48, fsm_test.go:218).
ContextSet(t, e, store, k, v) ==
    /\ Idle(t)
    /\ ctx' = [ctx EXCEPT ![e][store][k] = v]
    /\ Complete(t, "Set", e, <<store, k, v>>, NilErr)
    /\ onlyTriggers' = FALSE
    /\ okTargets' = <<>>
    /\ UNCHANGED <<cfgVars, held, syncVars, current, history>>

\* What the owner stores: an int in Data, a string in Meta.
Stored == {<<"Data", IntVal>>, <<"Meta", "v">>}

\* The labels of a payload: a configured one and two that are not.
CodecStates == {initial, "zz", "yy"}

\* Payloads with all four keys: Data holds a string and Meta nothing, or
\* Data holds a number and Meta a string.
Wholes ==
    UNION {[wellFormed : {TRUE}, fields : {Fields}, current : {initial, "zz"},
            history : SeqsUpTo(CodecStates, MaxPayloadHistory),
            data : {[k \in Keys |-> dm[1]]}, meta : {[k \in Keys |-> dm[2]]}] :
                dm \in {<<Quoted("v"), NoVal>>, <<"1", Quoted("v")>>}}

\* Payloads that lack one key, or all of them ("{}").
Incompletes ==
    {[wellFormed |-> TRUE, fields |-> F, current |-> initial,
      history |-> <<initial, initial>>,
      data |-> [k \in Keys |-> Quoted("v")], meta |-> [k \in Keys |-> Quoted("v")]] :
        F \in {Fields \ {f} : f \in Fields} \cup {{}}}

\* Payloads of configured labels only, whose history is not a path of the
\* engine: it begins with the target of the one transition.
Unlinked ==
    [wellFormed : {TRUE}, fields : {Fields}, current : {initial},
     history : {<<transitions[initial][1].to>>,
                <<transitions[initial][1].to, transitions[initial][1].to>>},
     data : {[k \in Keys |-> Quoted("v")]}, meta : {EmptyMap}]

CodecPayloads == {Malformed} \cup Wholes \cup Incompletes \cup Unlinked

CodecInit == InitWith({SerializationFSM}, Threads, Engines, {})

CodecNext ==
    \/ \E t \in Threads, e \in Engines, s \in States \cup {"zz"} : SetState(t, e, s)
    \/ \E t \in Threads, e \in Engines : Reset(t, e)
    \/ \E t \in Threads, e \in Engines, sv \in Stored, k \in Keys :
            ContextSet(t, e, sv[1], k, sv[2])
    \/ \E t \in Threads, e \in Engines, data \in CodecPayloads : UnmarshalJSON(t, e, data)
    \/ \E t \in Threads, e \in Engines : UnmarshalJSON(t, e, MarshalJSON(e))

CodecSpec == CodecInit /\ [][CodecNext]_vars

(***************************************************************************)
(* The methods of SyncFSM (fsm.go:247-344): each takes the lock, calls the *)
(* method of the wrapped FSM and releases the lock when it returns or      *)
(* panics (defer).                                                         *)
(***************************************************************************)
SyncMethods ==
    {"Trigger", "Current", "Context", "SetState", "Reset", "History", "States",
     "CallEnter", "ToDOT", "MarshalJSON", "UnmarshalJSON"}

\* The facade as it would be if CallEnter took the read lock.
ExclusiveButCallEnter(op) == op \in {"Trigger", "SetState", "Reset", "UnmarshalJSON"}

\* The methods that take sf.mu.Lock(); the others take sf.mu.RLock().
Exclusive(op) == op \in {"Trigger", "SetState", "Reset", "CallEnter", "UnmarshalJSON"}

\* SyncFSM.fsm: the engine a facade wraps.
Wrapped(s) == 1

\* A thread enters a method of facade s.
SyncCall(t, s, op) ==
    /\ Idle(t)
    /\ caller[t].pc = "out"
    /\ caller' = [caller EXCEPT ![t] = [op |-> op, pc |-> "lock", sync |-> s]]
    /\ last' = [last EXCEPT ![t] = Calling]
    /\ log' = [log EXCEPT ![t] = <<>>]
    /\ UNCHANGED <<cfgVars, held, fsmVars, stack, onlyTriggers, okTargets, mu>>

\* The threads blocked in mu.Lock() of facade s.
Waiting(s) ==
    {t \in DOMAIN caller :
        caller[t].pc = "lock" /\ caller[t].sync = s /\ Exclusive(caller[t].op)}

\* Lock as it would be if the facade called the engine without waiting for
\* the lock.
LockWithoutWaiting(t) ==
    /\ caller[t].pc = "lock"
    /\ Exclusive(caller[t].op)
    /\ mu' = [mu EXCEPT ![caller[t].sync].w = TRUE]
    /\ caller' = [caller EXCEPT ![t].pc = "in"]
    /\ UNCHANGED <<cfgVars, held, fsmVars, stack, log, last, onlyTriggers, okTargets>>

\* The facade call that user code of thread t makes: it has its own place
\* in caller, and thread t runs on when that call has returned.
Nested(t) == t + 10

\* Lock as it would be if the lock were re-entrant: the goroutine that
\* holds it for the enclosing method is let in again.
LockReentrant(t) ==
    /\ caller[t].pc = "lock"
    /\ Exclusive(caller[t].op)
    /\ LET s == caller[t].sync
       IN  /\ \/ ~mu[s].w /\ mu[s].r = 0
              \/ \E p \in DOMAIN caller : t = Nested(p) /\ caller[p].pc = "in" /\ caller[p].sync = s
           /\ mu' = [mu EXCEPT ![s].w = TRUE]
    /\ caller' = [caller EXCEPT ![t].pc = "in"]
    /\ UNCHANGED <<cfgVars, held, fsmVars, stack, log, last, onlyTriggers, okTargets>>

\* sf.mu.Lock(): when no reader and no writer holds the lock.
Lock(t) ==
    /\ caller[t].pc = "lock"
    /\ Exclusive(caller[t].op)
    /\ LET s == caller[t].sync
       IN  /\ ~mu[s].w
           /\ mu[s].r = 0
           /\ mu' = [mu EXCEPT ![s].w = TRUE]
    /\ caller' = [caller EXCEPT ![t].pc = "in"]
    /\ UNCHANGED <<cfgVars, held, fsmVars, stack, log, last, onlyTriggers, okTargets>>

\* RLock as it would be if mu were a sync.Mutex.
RLockExclusive(t) ==
    /\ caller[t].pc = "lock"
    /\ ~Exclusive(caller[t].op)
    /\ LET s == caller[t].sync
       IN  /\ ~mu[s].w
           /\ mu[s].r = 0
           /\ mu' = [mu EXCEPT ![s].r = @ + 1]
    /\ caller' = [caller EXCEPT ![t].pc = "in"]
    /\ UNCHANGED <<cfgVars, held, fsmVars, stack, log, last, onlyTriggers, okTargets>>

\* sf.mu.RLock(): when no writer holds the lock and none is blocked in
\* Lock() (sync.RWMutex lets no new reader in ahead of a blocked writer).
RLock(t) ==
    /\ caller[t].pc = "lock"
    /\ ~Exclusive(caller[t].op)
    /\ LET s == caller[t].sync
       IN  /\ ~mu[s].w
           /\ Waiting(s) = {}
           /\ mu' = [mu EXCEPT ![s].r = @ + 1]
    /\ caller' = [caller EXCEPT ![t].pc = "in"]
    /\ UNCHANGED <<cfgVars, held, fsmVars, stack, log, last, onlyTriggers, okTargets>>

\* The thread is in method op of a facade, holds the lock and has not called
\* the wrapped method yet.
Inside(t, op) == caller[t].pc = "in" /\ caller[t].op = op /\ last[t] = Calling

\* The read-only methods of the wrapped FSM, called under the lock.
SyncRead(t) ==
    /\ Idle(t)
    /\ \E op \in {"Current", "Context", "History", "States", "ToDOT", "MarshalJSON"} :
         /\ Inside(t, op)
         /\ LET e == Wrapped(caller[t].sync)
            IN  last' = [last EXCEPT ![t] =
                    [op |-> op, e |-> e, arg |-> Nil, pre |-> Nil, err |-> NilErr,
                     out |-> CASE op = "Current"     -> Current(e)
                               [] op = "Context"     -> Context(e)
                               [] op = "History"     -> History(e)
                               [] op = "States"      -> States
                               [] op = "ToDOT"       -> ToDOT(e)
                               [] op = "MarshalJSON" -> MarshalJSON(e)]]
    /\ log' = [log EXCEPT ![t] = <<>>]
    /\ UNCHANGED <<cfgVars, held, syncVars, fsmVars, stack, onlyTriggers, okTargets>>

\* Unlock as it would be without defer: a panic of the wrapped method
\* unwinds past the sf.mu.Unlock() that follows the call.
UnlockNotDeferred(t) ==
    /\ Idle(t)
    /\ caller[t].pc = "in"
    /\ Exclusive(caller[t].op)
    /\ last[t] # Calling
    /\ mu' = IF last[t].err.kind = "panic" THEN mu
                                           ELSE [mu EXCEPT ![caller[t].sync].w = FALSE]
    /\ caller' = [caller EXCEPT ![t] = Outside]
    /\ last' = [last EXCEPT ![t] = Calling]
    /\ log' = [log EXCEPT ![t] = <<>>]
    /\ UNCHANGED <<cfgVars, held, fsmVars, stack, onlyTriggers, okTargets>>

\* defer sf.mu.Unlock(): the wrapped method returned or panicked; the
\* caller leaves with the result.
Unlock(t) ==
    /\ Idle(t)
    /\ caller[t].pc = "in"
    /\ Exclusive(caller[t].op)
    /\ last[t] # Calling
    /\ mu' = [mu EXCEPT ![caller[t].sync].w = FALSE]
    /\ caller' = [caller EXCEPT ![t] = Outside]
    /\ last' = [last EXCEPT ![t] = Calling]
    /\ log' = [log EXCEPT ![t] = <<>>]
    /\ UNCHANGED <<cfgVars, held, fsmVars, stack, onlyTriggers, okTargets>>

\* defer sf.mu.RUnlock().
RUnlock(t) ==
    /\ Idle(t)
    /\ caller[t].pc = "in"
    /\ ~Exclusive(caller[t].op)
    /\ last[t] # Calling
    /\ mu' = [mu EXCEPT ![caller[t].sync].r = @ - 1]
    /\ caller' = [caller EXCEPT ![t] = Outside]
    /\ last' = [last EXCEPT ![t] = Calling]
    /\ log' = [log EXCEPT ![t] = <<>>]
    /\ UNCHANGED <<cfgVars, held, fsmVars, stack, onlyTriggers, okTargets>>

(***************************************************************************)
(* One engine behind one facade, called by two threads.                    *)
(***************************************************************************)
SyncThreads == {1, 2}
Facades == {1}

SyncInit == InitWith({SyncedFSM}, SyncThreads, Engines, Facades)

\* The payloads the threads decode: one that parses and one that does not.
SyncPayloads == {Malformed, MarshalJSON(1)}

SyncNext ==
    \/ \E t \in SyncThreads, s \in Facades, op \in SyncMethods : SyncCall(t, s, op)
    \/ \E t \in SyncThreads : Lock(t)
    \/ \E t \in SyncThreads : RLock(t)
    \/ \E t \in SyncThreads : SyncRead(t)
    \/ \E t \in SyncThreads : Unlock(t)
    \/ \E t \in SyncThreads : RUnlock(t)
    \/ \E t \in SyncThreads, event \in Events :
            Inside(t, "Trigger") /\ Trigger(t, Wrapped(caller[t].sync), event, <<>>)
    \/ \E t \in SyncThreads : TriggerGuard(t)
    \/ \E t \in SyncThreads : TriggerMatch(t)
    \/ \E t \in SyncThreads : TriggerExit(t)
    \/ \E t \in SyncThreads : TriggerExited(t)
    \/ \E t \in SyncThreads : TriggerHook(t)
    \/ \E t \in SyncThreads : TriggerHooked(t)
    \/ \E t \in SyncThreads : TriggerEnter(t)
    \/ \E t \in SyncThreads : TriggerCommit(t)
    \/ \E t \in SyncThreads, s \in StateArgs :
            Inside(t, "CallEnter") /\ CallEnter(t, Wrapped(caller[t].sync), s)
    \/ \E t \in SyncThreads : CallEnterCallback(t)
    \/ \E t \in SyncThreads : CallEnterReturn(t)
    \/ \E t \in SyncThreads, s \in StateArgs :
            Inside(t, "SetState") /\ SetState(t, Wrapped(caller[t].sync), s)
    \/ \E t \in SyncThreads : Inside(t, "Reset") /\ Reset(t, Wrapped(caller[t].sync))
    \/ \E t \in SyncThreads, data \in SyncPayloads :
            Inside(t, "UnmarshalJSON") /\ UnmarshalJSON(t, Wrapped(caller[t].sync), data)

SyncSpec == SyncInit /\ [][SyncNext]_vars

(***************************************************************************)
(* One engine behind two facades, each the result of a call of Sync        *)
(* (fsm.go:45: a new SyncFSM, with a mutex of its own, around the same     *)
(* *FSM), as template.Sync() is called twice in TestSyncFSM_JSON.  The     *)
(* steps of two calls that are inside the engine together interleave.      *)
(***************************************************************************)
TwinFacades == {1, 2}

\* The methods the two callers use: one that takes the lock and one that
\* takes the read lock.
TwinMethods == {"Trigger", "Current"}

TwinInit == InitWith({SyncedFSM}, SyncThreads, Engines, TwinFacades)

TwinNext ==
    \/ \E t \in SyncThreads, s \in TwinFacades, op \in TwinMethods : SyncCall(t, s, op)
    \/ \E t \in SyncThreads : Lock(t)
    \/ \E t \in SyncThreads : RLock(t)
    \/ \E t \in SyncThreads : SyncRead(t)
    \/ \E t \in SyncThreads : Unlock(t)
    \/ \E t \in SyncThreads : RUnlock(t)
    \/ \E t \in SyncThreads, event \in Events :
            Inside(t, "Trigger") /\ Trigger(t, Wrapped(caller[t].sync), event, <<>>)
    \/ \E t \in SyncThreads : TriggerGuard(t)
    \/ \E t \in SyncThreads : TriggerMatch(t)
    \/ \E t \in SyncThreads : TriggerExit(t)
    \/ \E t \in SyncThreads : TriggerExited(t)
    \/ \E t \in SyncThreads : TriggerHook(t)
    \/ \E t \in SyncThreads : TriggerHooked(t)
    \/ \E t \in SyncThreads : TriggerEnter(t)
    \/ \E t \in SyncThreads : TriggerCommit(t)

TwinSpec == TwinInit /\ [][TwinNext]_vars

(***************************************************************************)
(* Two goroutines that each call Trigger once on one facade and keep the   *)
(* error, as the timer goroutine and main do in                            *)
(* examples/transition_after.go.  The engine waits for a confirmation:     *)
(* cancel and timeout are both possible from Waiting only, and a request   *)
(* is possible once it is Canceled.  No callbacks are registered, so the   *)
(* callback steps of Trigger have nothing to run.                          *)
(***************************************************************************)
RaceFSM ==
    LET f0 == Transition(New("Waiting"), "Waiting", "cancel", "Canceled")
        f1 == Transition(f0, "Waiting", "timeout", "TimedOut")
    IN  Transition(f1, "Canceled", "request", "Waiting")

RaceEvents == {"cancel", "timeout", "request"}

\* err := sf.Trigger(event) returns: defer sf.mu.Unlock() runs and the
\* caller keeps the event, the error and whether the other goroutine was
\* waiting for the lock meanwhile.
UnlockAndKeep(t) ==
    /\ Idle(t)
    /\ caller[t].pc = "in"
    /\ caller[t].op = "Trigger"
    /\ last[t] # Calling
    /\ mu' = [mu EXCEPT ![caller[t].sync].w = FALSE]
    /\ caller' = [caller EXCEPT ![t] = Outside]
    /\ held' = [held EXCEPT ![t].result =
                  <<[event |-> last[t].arg.event, err |-> last[t].err,
                     contended |-> Waiting(caller[t].sync) # {}]>>]
    /\ last' = [last EXCEPT ![t] = Calling]
    /\ log' = [log EXCEPT ![t] = <<>>]
    /\ UNCHANGED <<cfgVars, fsmVars, stack, onlyTriggers, okTargets>>

RaceInit == InitWith({RaceFSM}, SyncThreads, Engines, Facades)

RaceNext ==
    \/ \E t \in SyncThreads, s \in Facades :
            held[t].result = <<>> /\ SyncCall(t, s, "Trigger")
    \/ \E t \in SyncThreads : Lock(t)
    \/ \E t \in SyncThreads, event \in RaceEvents :
            Inside(t, "Trigger") /\ Trigger(t, Wrapped(caller[t].sync), event, <<>>)
    \/ \E t \in SyncThreads : TriggerGuard(t)
    \/ \E t \in SyncThreads : TriggerMatch(t)
    \/ \E t \in SyncThreads : TriggerExited(t)
    \/ \E t \in SyncThreads : TriggerHooked(t)
    \/ \E t \in SyncThreads : TriggerCommit(t)
    \/ \E t \in SyncThreads : UnlockAndKeep(t)

RaceSpec == RaceInit /\ [][RaceNext]_vars

(***************************************************************************)
(* FSM.States (fsm.go:74-86) as the slice it returns, and a configuration  *)
(* under construction.                                                     *)
(***************************************************************************)
Range(q) == {q[i] : i \in 1..Len(q)}

\* fsm.go:76-83: the states inserted into stateSet, in order: the initial
\* state, then each key of the table (its keys met in the order keys)
\* followed by the targets of its transitions.
RECURSIVE Inserted(_, _)
Inserted(f, keys) ==
    IF keys = <<>>
      THEN <<f.initial>>
      ELSE LET front == SubSeq(keys, 1, Len(keys) - 1)
               key   == keys[Len(keys)]
               list  == f.transitions[key]
           IN  Inserted(f, front) \o <<key>> \o [i \in 1..Len(list) |-> list[i].to]

\* g.Set: an inserted value that is present already is dropped; Slice()
\* lists the members.
SetSlice(q) ==
    LET member[i \in 0..Len(q)] ==
            IF i = 0
              THEN <<>>
              ELSE LET set == member[i - 1]
                   IN  IF q[i] \in Range(set) THEN set ELSE Append(set, q[i])
    IN  member[Len(q)]

\* States that also scans the registries of entry and exit callbacks.
StatesSliceWithCallbackStates(f, keys) ==
    LET extra == DOMAIN f.onEnter \cup DOMAIN f.onExit
        list  == CHOOSE q \in [1..Cardinality(extra) -> extra] : Range(q) = extra
    IN  SetSlice(Inserted(f, keys) \o list)

\* f.States(): the slice of the set of the states inserted.
StatesSlice(f, keys) == SetSlice(Inserted(f, keys))

\* The orders in which the iteration over the table may meet its keys.
KeyOrders(f) ==
    {o \in [1..Cardinality(DOMAIN f.transitions) -> DOMAIN f.transitions] :
        Range(o) = DOMAIN f.transitions}

\* The configuration the engines share, as one FSM value, and its
\* replacement by a builder call.
Configuration ==
    [initial |-> initial, transitions |-> transitions, onEnter |-> onEnter,
     onExit |-> onExit, onTransition |-> onTransition]

Configure(f) ==
    /\ initial' = f.initial
    /\ transitions' = f.transitions
    /\ onEnter' = f.onEnter
    /\ onExit' = f.onExit
    /\ onTransition' = f.onTransition

\* f.Transition(from, event, to) on the engine: one more transition in the
\* table.
Register(t, e, from, event, to) ==
    /\ Idle(t)
    /\ Len(Get(transitions, from)) < MaxRegistered
    /\ Configure(Transition(Configuration, from, event, to))
    /\ Complete(t, "Transition", e, [from |-> from, event |-> event, to |-> to], NilErr)
    /\ UNCHANGED <<syncVars, held, fsmVars, onlyTriggers, okTargets>>

\* f.OnEnter(state, cb) and f.OnExit(state, cb) on the engine.
RegisterOnEnter(t, e, state, cb) ==
    /\ Idle(t)
    /\ state \notin DOMAIN onEnter
    /\ Configure(OnEnter(Configuration, state, cb))
    /\ Complete(t, "OnEnter", e, state, NilErr)
    /\ UNCHANGED <<syncVars, held, fsmVars, onlyTriggers, okTargets>>

RegisterOnExit(t, e, state, cb) ==
    /\ Idle(t)
    /\ state \notin DOMAIN onExit
    /\ Configure(OnExit(Configuration, state, cb))
    /\ Complete(t, "OnExit", e, state, NilErr)
    /\ UNCHANGED <<syncVars, held, fsmVars, onlyTriggers, okTargets>>

\* The states the builder calls name: a and b as sources, a, b and c as
\* targets, d in callbacks only.
Sources == {"a", "b"}
Targets == {"a", "b", "c"}
CallbackOnlyStates == {"d"}

BuilderInit == InitWith({New("a")}, Threads, Engines, {})

BuilderNext ==
    \/ \E t \in Threads, e \in Engines, from \in Sources, to \in Targets :
         Register(t, e, from, "go", to)
    \/ \E t \in Threads, e \in Engines, s \in CallbackOnlyStates : RegisterOnEnter(t, e, s, "enter_d")
    \/ \E t \in Threads, e \in Engines, s \in CallbackOnlyStates : RegisterOnExit(t, e, s, "exit_d")
    \/ \E t \in Threads, e \in Engines, s \in CallbackOnlyStates : SetState(t, e, s)

BuilderSpec == BuilderInit /\ [][BuilderNext]_vars

(***************************************************************************)
(* FSM.Clone (fsm.go:31-42) and a template with its clones, driven by one  *)
(* caller.                                                                 *)
(***************************************************************************)
\* Clone as a copy of the whole struct: the clone starts where the template
\* is.
CloneCopiesState(t, e, c) ==
    /\ Idle(t)
    /\ c \notin DOMAIN current
    /\ current' = (c :> current[e]) @@ current
    /\ history' = (c :> history[e]) @@ history
    /\ ctx' = (c :> ctx[e]) @@ ctx
    /\ Complete(t, "Clone", e, c, NilErr)
    /\ onlyTriggers' = FALSE
    /\ okTargets' = <<>>
    /\ UNCHANGED <<cfgVars, held, syncVars>>

\* f.Clone() makes engine c: the configuration of f (the variables all
\* engines share), current = f.initial, a history of f.initial alone and a
\* new Context.
Clone(t, e, c) ==
    /\ Idle(t)
    /\ c \notin DOMAIN current
    /\ current' = (c :> initial) @@ current
    /\ history' = (c :> <<initial>>) @@ history
    /\ ctx' = (c :> newContext(initial)) @@ ctx
    /\ Complete(t, "Clone", e, c, NilErr)
    /\ onlyTriggers' = FALSE
    /\ okTargets' = <<>>
    /\ UNCHANGED <<cfgVars, held, syncVars>>

\* The identities of the engines Clone makes.
CloneIds == {2}

\* The payloads the clones decode.
ClonePayloads == {Malformed, jsonMarshal([current |-> "b", history |-> <<"a", "b">>,
                                         Data |-> [k \in Keys |-> "v"], Meta |-> EmptyMap])}

CloneInit == InitWith({SyncedFSM}, Threads, {1}, {})

CloneNext ==
    \/ \E t \in Threads, e \in DOMAIN current, c \in CloneIds : Clone(t, e, c)
    \/ \E t \in Threads, e \in DOMAIN current, event \in Events : Trigger(t, e, event, <<>>)
    \/ \E t \in Threads : TriggerGuard(t)
    \/ \E t \in Threads : TriggerMatch(t)
    \/ \E t \in Threads : TriggerExit(t)
    \/ \E t \in Threads : TriggerExited(t)
    \/ \E t \in Threads : TriggerHook(t)
    \/ \E t \in Threads : TriggerHooked(t)
    \/ \E t \in Threads : TriggerEnter(t)
    \/ \E t \in Threads : TriggerCommit(t)
    \/ \E t \in Threads, e \in DOMAIN current, s \in StateArgs : CallEnter(t, e, s)
    \/ \E t \in Threads : CallEnterCallback(t)
    \/ \E t \in Threads : CallEnterReturn(t)
    \/ \E t \in Threads, e \in DOMAIN current, s \in StateArgs : SetState(t, e, s)
    \/ \E t \in Threads, e \in DOMAIN current : Reset(t, e)
    \/ \E t \in Threads, e \in DOMAIN current, data \in ClonePayloads : UnmarshalJSON(t, e, data)

CloneSpec == CloneInit /\ [][CloneNext]_vars

(***************************************************************************)
(* A caller that keeps what History, MarshalJSON and Context returned      *)
(* (fsm.go:48, 54; json.go:20-29) and later writes through it.  A caller   *)
(* keeps one value at a time.                                              *)
(***************************************************************************)
\* History that returns f.history itself: the slice the caller gets shares
\* its array with the engine.
KeepHistoryLive(t, e) ==
    /\ Idle(t)
    /\ held' = [held EXCEPT ![t] = [NothingHeld EXCEPT !.list = history[e], !.shares = e]]
    /\ Complete(t, "History", e, Nil, NilErr)
    /\ UNCHANGED <<cfgVars, syncVars, fsmVars, onlyTriggers, okTargets>>

\* h := f.History(): f.history.Clone(), a slice with an array of its own.
KeepHistory(t, e) ==
    /\ Idle(t)
    /\ held' = [held EXCEPT ![t] = [NothingHeld EXCEPT !.list = History(e)]]
    /\ Complete(t, "History", e, Nil, NilErr)
    /\ UNCHANGED <<cfgVars, syncVars, fsmVars, onlyTriggers, okTargets>>

\* data, _ := f.MarshalJSON(): the bytes json.Marshal made.
KeepSnapshot(t, e) ==
    /\ Idle(t)
    /\ held' = [held EXCEPT ![t] = [NothingHeld EXCEPT !.snapshot = <<MarshalJSON(e)>>]]
    /\ Complete(t, "MarshalJSON", e, Nil, NilErr)
    /\ UNCHANGED <<cfgVars, syncVars, fsmVars, onlyTriggers, okTargets>>

\* c := f.Context(): the pointer f.ctx.
KeepContext(t, e) ==
    /\ Idle(t)
    /\ held' = [held EXCEPT ![t] = [NothingHeld EXCEPT !.context = Context(e)]]
    /\ Complete(t, "Context", e, Nil, NilErr)
    /\ UNCHANGED <<cfgVars, syncVars, fsmVars, onlyTriggers, okTargets>>

\* h[i] = "x" on the slice kept: an assignment to the array of h, which is
\* the array of an engine's history if h shares it.
AssignElement(t, i) ==
    /\ Idle(t)
    /\ i \in 1..Len(held[t].list)
    /\ held[t].list[i] # "x"
    /\ held' = [held EXCEPT ![t].list[i] = "x"]
    /\ history' = IF held[t].shares \in DOMAIN history /\ i <= Len(history[held[t].shares])
                    THEN [history EXCEPT ![held[t].shares][i] = "x"]
                    ELSE history
    /\ Complete(t, "h[i] = x", held[t].shares, i, NilErr)
    /\ UNCHANGED <<cfgVars, syncVars, current, ctx, onlyTriggers, okTargets>>

\* c.Data.Set(k, "w") through the pointer kept: a write to the Data map of
\* the Context c points to.
SetThroughContext(t) ==
    /\ Idle(t)
    /\ held[t].context # NoContext
    /\ ctx' = IF held[t].context.ptr \in DOMAIN ctx
                THEN [ctx EXCEPT ![held[t].context.ptr].Data = [k \in Keys |-> "w"]]
                ELSE ctx
    /\ Complete(t, "c.Data.Set", held[t].context.ptr, Nil, NilErr)
    /\ UNCHANGED <<cfgVars, syncVars, held, current, history, onlyTriggers, okTargets>>

\* The one payload decoded: a snapshot taken in b.
KeptPayloads ==
    {jsonMarshal([current |-> "b", history |-> <<"a", "b">>,
                  Data |-> [k \in Keys |-> "v"], Meta |-> EmptyMap])}

KeeperInit == InitWith({SyncedFSM}, Threads, Engines, {})

KeeperNext ==
    \/ \E t \in Threads, e \in Engines : KeepHistory(t, e)
    \/ \E t \in Threads, e \in Engines : KeepSnapshot(t, e)
    \/ \E t \in Threads, e \in Engines : KeepContext(t, e)
    \/ \E t \in Threads, i \in 1..MaxHistory : AssignElement(t, i)
    \/ \E t \in Threads : SetThroughContext(t)
    \/ \E t \in Threads, e \in Engines, event \in Events : Trigger(t, e, event, <<"in1">>)
    \/ \E t \in Threads : TriggerGuard(t)
    \/ \E t \in Threads : TriggerMatch(t)
    \/ \E t \in Threads : TriggerExit(t)
    \/ \E t \in Threads : TriggerExited(t)
    \/ \E t \in Threads : TriggerHook(t)
    \/ \E t \in Threads : TriggerHooked(t)
    \/ \E t \in Threads : TriggerEnter(t)
    \/ \E t \in Threads : TriggerCommit(t)
    \/ \E t \in Threads, e \in Engines : Reset(t, e)
    \/ \E t \in Threads, e \in Engines, data \in KeptPayloads : UnmarshalJSON(t, e, data)

KeeperSpec == KeeperInit /\ [][KeeperNext]_vars

(***************************************************************************)
(* Overlapping transitions: the form of examples/json_invalid.go:84-91,    *)
(* where one event of one state has an unguarded and a guarded transition  *)
(* to the same target, and the NPC of the README, whose guarded            *)
(* transitions share an event and whose Enraged state leads to itself.     *)
(***************************************************************************)
FormFSM ==
    LET f0 == Transition(New("age"), "age", "input", "lang")
        f1 == TransitionWhen(f0, "age", "input", "lang", "valid_age")
        f2 == TransitionWhen(f1, "lang", "ok", "done", "confirmed")
        f3 == TransitionWhen(f2, "lang", "ok", "done", "checked")
    IN  OnEnter(f3, "done", "enter_done")

NpcFSM ==
    LET f0 == TransitionWhen(New("attacking"), "attacking", "damage", "defending", "isBadlyWounded")
        f1 == TransitionWhen(f0, "attacking", "damage", "enraged", "isNearDeath")
        f2 == TransitionWhen(f1, "defending", "damage", "enraged", "isNearDeath")
        f3 == TransitionWhen(f2, "enraged", "damage", "enraged", "isNearDeath")
        f4 == Transition(f3, "defending", "recover", "attacking")
        f5 == OnEnter(OnExit(f4, "enraged", "exit_enraged"), "enraged", "enter_enraged")
    IN  OnTransition(f5, "hook1")

MatchInit == InitWith({FormFSM, NpcFSM}, Threads, Engines, {})

MatchNext ==
    \/ \E t \in Threads, e \in Engines, event \in Events, input \in Inputs : Trigger(t, e, event, input)
    \/ \E t \in Threads : TriggerGuard(t)
    \/ \E t \in Threads : TriggerMatch(t)
    \/ \E t \in Threads : TriggerExit(t)
    \/ \E t \in Threads : TriggerExited(t)
    \/ \E t \in Threads : TriggerHook(t)
    \/ \E t \in Threads : TriggerHooked(t)
    \/ \E t \in Threads : TriggerEnter(t)
    \/ \E t \in Threads : TriggerCommit(t)

MatchSpec == MatchInit /\ [][MatchNext]_vars

(***************************************************************************)
(* A new engine that is only ever driven by Trigger, CallEnter and Reset.  *)
(***************************************************************************)
PathNext ==
    \/ \E t \in Threads, e \in Engines, event \in Events, input \in Inputs : Trigger(t, e, event, input)
    \/ \E t \in Threads : TriggerGuard(t)
    \/ \E t \in Threads : TriggerMatch(t)
    \/ \E t \in Threads : TriggerExit(t)
    \/ \E t \in Threads : TriggerExited(t)
    \/ \E t \in Threads : TriggerHook(t)
    \/ \E t \in Threads : TriggerHooked(t)
    \/ \E t \in Threads : TriggerEnter(t)
    \/ \E t \in Threads : TriggerCommit(t)
    \/ \E t \in Threads, e \in Engines, s \in StateArgs : CallEnter(t, e, s)
    \/ \E t \in Threads : CallEnterCallback(t)
    \/ \E t \in Threads : CallEnterReturn(t)
    \/ \E t \in Threads, e \in Engines : Reset(t, e)

PathSpec == Init /\ [][PathNext]_vars

(***************************************************************************)
(* Re-entry: a transition hook or an entry callback of a Trigger in flight *)
(* calls Trigger on the engine it was handed, before it returns.  The      *)
(* callbacks of the nested Trigger do not call the engine again, and a     *)
(* Trigger is re-entered by at most one of its callbacks.                  *)
(***************************************************************************)
\* fsm.go:136-145, called while the hook or entry callback at Top(t).idx of
\* the Trigger in flight is running; no input is passed.
TriggerWithin(t, event) ==
    /\ Len(stack[t]) = 1
    /\ Top(t).op = "Trigger"
    /\ \/ Top(t).pc = "hook" /\ Top(t).idx <= Len(onTransition)
       \/ Top(t).pc = "enter" /\ Top(t).idx <= Len(Get(onEnter, Top(t).nextState))
    /\ last[t] = Calling
    /\ LET e == Top(t).e
       IN  /\ Len(history[e]) + 1 < MaxHistory \/ ~Configured(current[e], event)
           /\ ctx' = [ctx EXCEPT ![e].Input = Nil]
           /\ IF current[e] \notin DOMAIN transitions
                THEN /\ last' = [last EXCEPT ![t] =
                                   [op |-> "Trigger", e |-> e, arg |-> [event |-> event, input |-> <<>>],
                                    pre |-> Snapshot(e),
                                    err |-> ErrInvalidTransition(current[e], event)]]
                     /\ UNCHANGED stack
                ELSE /\ stack' = [stack EXCEPT ![t] = Append(@,
                                   [op |-> "Trigger", e |-> e, arg |-> [event |-> event, input |-> <<>>],
                                    pre |-> Snapshot(e), pc |-> "guard", idx |-> 1,
                                    list |-> transitions[current[e]], matched |-> <<>>,
                                    previousState |-> NoState, nextState |-> NoState])]
                     /\ UNCHANGED last
    /\ UNCHANGED <<cfgVars, held, syncVars, current, history, log, onlyTriggers, okTargets>>

ReentrantInit == InitWith({GuardedFSM}, Threads, Engines, {})

ReentrantNext ==
    \/ \E t \in Threads, e \in Engines, event \in Events, input \in Inputs : Trigger(t, e, event, input)
    \/ \E t \in Threads, event \in Events : TriggerWithin(t, event)
    \/ \E t \in Threads : TriggerGuard(t)
    \/ \E t \in Threads : TriggerMatch(t)
    \/ \E t \in Threads : TriggerExit(t)
    \/ \E t \in Threads : TriggerExited(t)
    \/ \E t \in Threads : TriggerHook(t)
    \/ \E t \in Threads : TriggerHooked(t)
    \/ \E t \in Threads : TriggerEnter(t)
    \/ \E t \in Threads : TriggerCommit(t)

ReentrantSpec == ReentrantInit /\ [][ReentrantNext]_vars

(***************************************************************************)
(* Two callers of one facade; a caller keeps the *Context that             *)
(* SyncFSM.Context() returned (fsm_test.go:341) and reads its fields       *)
(* later, outside any facade method.                                       *)
(***************************************************************************)
\* defer sf.mu.RUnlock() of SyncFSM.Context (fsm.go:265-269): the caller
\* leaves with the pointer.
RUnlockAndKeep(t) ==
    /\ Idle(t)
    /\ caller[t].pc = "in"
    /\ caller[t].op = "Context"
    /\ last[t] # Calling
    /\ mu' = [mu EXCEPT ![caller[t].sync].r = @ - 1]
    /\ caller' = [caller EXCEPT ![t] = Outside]
    /\ held' = [held EXCEPT ![t] = [NothingHeld EXCEPT !.context = last[t].out]]
    /\ last' = [last EXCEPT ![t] = Calling]
    /\ log' = [log EXCEPT ![t] = <<>>]
    /\ UNCHANGED <<cfgVars, fsmVars, stack, onlyTriggers, okTargets>>

\* The engine calls in flight on engine e.
InFlightOn(e) == {u \in DOMAIN stack : ~Idle(u) /\ Top(u).e = e}

\* c.State and c.Input read through the pointer kept (context.go:10-15), in
\* no facade method and under no lock; the caller notes what it read and
\* which calls were in flight on the engine then.
ReadThroughContext(t) ==
    /\ Idle(t)
    /\ caller[t].pc = "out"
    /\ held[t].context.ptr \in DOMAIN ctx
    /\ LET e == held[t].context.ptr
       IN  held' = [held EXCEPT ![t].result =
                      <<[State |-> ctx[e].State, Input |-> ctx[e].Input,
                         current |-> current[e], inFlight |-> InFlightOn(e)]>>]
    /\ held'[t] # held[t]
    /\ UNCHANGED <<cfgVars, syncVars, fsmVars, stack, log, last, onlyTriggers, okTargets>>

HolderNext ==
    \/ \E t \in SyncThreads, s \in Facades, op \in {"Trigger", "Context"} : SyncCall(t, s, op)
    \/ \E t \in SyncThreads : Lock(t)
    \/ \E t \in SyncThreads : RLock(t)
    \/ \E t \in SyncThreads : SyncRead(t)
    \/ \E t \in SyncThreads : Unlock(t)
    \/ \E t \in SyncThreads : RUnlockAndKeep(t)
    \/ \E t \in SyncThreads : ReadThroughContext(t)
    \/ \E t \in SyncThreads, event \in Events :
            Inside(t, "Trigger") /\ Trigger(t, Wrapped(caller[t].sync), event, <<"in1">>)
    \/ \E t \in SyncThreads : TriggerGuard(t)
    \/ \E t \in SyncThreads : TriggerMatch(t)
    \/ \E t \in SyncThreads : TriggerExit(t)
    \/ \E t \in SyncThreads : TriggerExited(t)
    \/ \E t \in SyncThreads : TriggerHook(t)
    \/ \E t \in SyncThreads : TriggerHooked(t)
    \/ \E t \in SyncThreads : TriggerEnter(t)
    \/ \E t \in SyncThreads : TriggerCommit(t)

HolderSpec == SyncInit /\ [][HolderNext]_vars

(***************************************************************************)
(* Two callers of one facade under the scheduling Go provides: a goroutine *)
(* that can run does run, and a goroutine blocked in Lock or RLock gets    *)
(* the lock when it is released again and again (sync.RWMutex hands the    *)
(* lock to a waiting writer, and lets the readers that queued behind a     *)
(* writer in when it unlocks).  Callbacks return and call no facade.       *)
(***************************************************************************)
\* The steps of thread t once it holds the lock.
Proceed(t) ==
    \/ \E event \in Events :
            Inside(t, "Trigger") /\ Trigger(t, Wrapped(caller[t].sync), event, <<>>)
    \/ TriggerGuard(t)
    \/ TriggerMatch(t)
    \/ TriggerExit(t)
    \/ TriggerExited(t)
    \/ TriggerHook(t)
    \/ TriggerHooked(t)
    \/ TriggerEnter(t)
    \/ TriggerCommit(t)
    \/ SyncRead(t)
    \/ Unlock(t)
    \/ RUnlock(t)

FairNext ==
    \/ \E t \in SyncThreads, s \in Facades, op \in TwinMethods : SyncCall(t, s, op)
    \/ \E t \in SyncThreads : Lock(t)
    \/ \E t \in SyncThreads : RLock(t)
    \/ \E t \in SyncThreads : Proceed(t)

FairSpec ==
    /\ SyncInit
    /\ [][FairNext]_vars
    /\ \A t \in SyncThreads :
         WF_vars(Proceed(t)) /\ SF_vars(Lock(t)) /\ SF_vars(RLock(t))

(***************************************************************************)
(* Facade calls made by user code: a guard, callback or hook that runs in  *)
(* Trigger or CallEnter of a facade calls a method of the same facade on   *)
(* its own goroutine, while another goroutine (the timer goroutine of      *)
(* examples/transition_after.go:63-85) calls the facade as well.           *)
(***************************************************************************)
\* The facade calls that the user code of the two threads makes.
NestedCallers == {Nested(t) : t \in SyncThreads}

\* Thread t is at a call of user code: a guard of the event, an exit
\* callback, a hook or an entry callback.
InUserCode(t) ==
    /\ ~Idle(t)
    /\ LET fr == Top(t)
       IN  \/ /\ fr.pc = "guard" /\ fr.idx <= Len(fr.list)
              /\ fr.list[fr.idx].event = fr.arg.event /\ fr.list[fr.idx].guard # Nil
           \/ fr.pc = "exit" /\ fr.idx <= Len(Get(onExit, fr.previousState))
           \/ fr.pc = "hook" /\ fr.idx <= Len(onTransition)
           \/ fr.pc = "enter" /\ fr.idx <= Len(Get(onEnter, fr.nextState))

\* The user code of thread t is not waiting in a facade call of its own.
Running(t) == caller[Nested(t)].pc = "out"

NestedInit == InitWith({SyncedFSM}, SyncThreads \cup NestedCallers, Engines, Facades)

NestedNext ==
    \/ \E t \in SyncThreads, s \in Facades, op \in {"Trigger", "CallEnter", "Current"} :
            SyncCall(t, s, op)
    \/ \E t \in SyncThreads, op \in TwinMethods :
            /\ InUserCode(t) /\ caller[t].pc = "in" /\ Running(t)
            /\ SyncCall(Nested(t), caller[t].sync, op)
    \/ \E t \in SyncThreads \cup NestedCallers : Lock(t)
    \/ \E t \in SyncThreads \cup NestedCallers : RLock(t)
    \/ \E t \in SyncThreads : SyncRead(t)
    \/ \E t \in SyncThreads : Unlock(t)
    \/ \E t \in SyncThreads : RUnlock(t)
    \/ \E t \in SyncThreads, event \in Events :
            Inside(t, "Trigger") /\ Trigger(t, Wrapped(caller[t].sync), event, <<>>)
    \/ \E t \in SyncThreads : Running(t) /\ TriggerGuard(t)
    \/ \E t \in SyncThreads : Running(t) /\ TriggerMatch(t)
    \/ \E t \in SyncThreads : Running(t) /\ TriggerExit(t)
    \/ \E t \in SyncThreads : Running(t) /\ TriggerExited(t)
    \/ \E t \in SyncThreads : Running(t) /\ TriggerHook(t)
    \/ \E t \in SyncThreads : Running(t) /\ TriggerHooked(t)
    \/ \E t \in SyncThreads : Running(t) /\ TriggerEnter(t)
    \/ \E t \in SyncThreads : Running(t) /\ TriggerCommit(t)
    \/ \E t \in SyncThreads, s \in StateArgs :
            Inside(t, "CallEnter") /\ CallEnter(t, Wrapped(caller[t].sync), s)
    \/ \E t \in SyncThreads : Running(t) /\ CallEnterCallback(t)
    \/ \E t \in SyncThreads : Running(t) /\ CallEnterReturn(t)

NestedSpec == NestedInit /\ [][NestedNext]_vars

(***************************************************************************)
(* What a caller and its test double see of a completed call.              *)
(***************************************************************************)
Returned(t, op) == Idle(t) /\ last[t].op = op

ErrorKinds == {"ErrInvalidTransition", "ErrAmbiguousTransition", "ErrCallback"}

\* current and history of the engine are what they were when the call began.
Untouched(t) ==
    /\ current[last[t].e] = last[t].pre.current
    /\ history[last[t].e] = last[t].pre.history

\* The calls of callbacks and hooks (not of guards) the test double recorded.
Calls(lg) == SelectSeq(lg, LAMBDA c : c.kind # "Guard")

Tagged(kind, ids) == [i \in 1..Len(ids) |-> <<kind, ids[i]>>]

\* The transitions from state s the test double saw pass for event.
PassedFrom(s, event, lg) ==
    IF s \in DOMAIN transitions THEN Passed(transitions[s], event, lg) ELSE {}

\* The targets of those transitions.
PassedTargets(s, event, lg) == {transitions[s][i].to : i \in PassedFrom(s, event, lg)}

(***************************************************************************)
(* C1: a Trigger that returns an error (ErrInvalidTransition,              *)
(* ErrAmbiguousTransition, or an ErrCallback from an exit callback, a hook *)
(* or an entry callback that failed or panicked) leaves current and        *)
(* history equal to their values before the call.                          *)
(***************************************************************************)
C1_FailedTriggerKeepsState ==
    \A t \in Threads :
        Returned(t, "Trigger") /\ last[t].err.kind \in ErrorKinds => Untouched(t)

\* A trigger whose exit callbacks and hooks all ran failed in a panicking
\* entry callback of the target.
C1_Witness ==
    \E t \in Threads :
        /\ Returned(t, "Trigger")
        /\ last[t].err = ErrCallback("OnEnter", "b", PanicError("boom"))
        /\ Len(Calls(log[t])) = 5

(***************************************************************************)
(* C2: from a new engine driven by Trigger calls only, after every call    *)
(* history has one entry more than the number of triggers that returned    *)
(* nil, entry i+1 is the target of the i-th of them (the target of the one *)
(* transition the test double saw pass), and current is the last entry.    *)
(***************************************************************************)
C2_HistoryCountsSuccesses ==
    onlyTriggers /\ (\A t \in Threads : Idle(t)) =>
        \A e \in Engines :
            /\ Len(history[e]) = 1 + Len(okTargets)
            /\ history[e][1] = initial
            /\ \A i \in 1..Len(okTargets) : okTargets[i] = {history[e][i + 1]}
            /\ current[e] = Last(history[e])

\* Two triggers succeeded, the second one a self-transition, and a third
\* call failed.
C2_Witness ==
    /\ onlyTriggers
    /\ Len(okTargets) = 2
    /\ history[1][2] = history[1][3]
    /\ \E t \in Threads : Returned(t, "Trigger") /\ last[t].err.kind = "ErrInvalidTransition"

(***************************************************************************)
(* C3: in a successful Trigger the exit callbacks of the source ran in     *)
(* registration order, then the transition hooks in registration order,    *)
(* then the entry callbacks of the target in registration order, each      *)
(* exactly once and nothing else.                                          *)
(***************************************************************************)
C3_ExitHooksEnterOrder ==
    \A t \in Threads :
        Returned(t, "Trigger") /\ last[t].err = NilErr =>
            LET calls == Calls(log[t])
            IN  [i \in 1..Len(calls) |-> <<calls[i].kind, calls[i].id>>]
                  = Tagged("OnExit", Get(onExit, last[t].pre.current))
                      \o Tagged("OnTransition", onTransition)
                      \o Tagged("OnEnter", Get(onEnter, current[last[t].e]))

\* A successful trigger from a to b: two exit callbacks, two hooks, two entry
\* callbacks.
C3_Witness ==
    \E t \in Threads :
        /\ Returned(t, "Trigger") /\ last[t].err = NilErr
        /\ last[t].pre.current = "a" /\ current[last[t].e] = "b"
        /\ Len(Calls(log[t])) = 6

C5_NoMatchIsInvalid ==
    \A t \in Threads :
        /\ Returned(t, "Trigger")
        /\ last[t].err.kind # "panic"
        /\ PassedFrom(last[t].pre.current, last[t].arg.event, log[t]) = {}
        => /\ last[t].err = ErrInvalidTransition(last[t].pre.current, last[t].arg.event)
           /\ Calls(log[t]) = <<>>
           /\ Untouched(t)

\* The job scenario: after start and pause, an unknown event fails from
\* paused and the engine stays there.
C5_Witness ==
    \E t \in Threads :
        /\ Returned(t, "Trigger")
        /\ last[t].err = ErrInvalidTransition("paused", "bogus")
        /\ current[last[t].e] = "paused"
        /\ history[last[t].e] = <<"idle", "running", "paused">>

(***************************************************************************)
(* C6: a transition whose guard returned false is never taken.  A Trigger  *)
(* that succeeds took the one transition that passed; when none passed it  *)
(* fails, no entry callback runs and current and history stay as they      *)
(* were; the entry callbacks that run are those of a passed transition's   *)
(* target; and when exactly one passed and no callback failed, it          *)
(* succeeds.                                                               *)
(***************************************************************************)
C6_FalseGuardNeverTaken ==
    \A t \in Threads :
        Returned(t, "Trigger") /\ last[t].err.kind # "panic" =>
            LET l       == last[t]
                targets == PassedTargets(l.pre.current, l.arg.event, log[t])
                passed  == PassedFrom(l.pre.current, l.arg.event, log[t])
                calls   == Calls(log[t])
            IN  /\ l.err = NilErr =>
                     /\ Cardinality(passed) = 1
                     /\ current[l.e] \in targets
                     /\ history[l.e] = Append(l.pre.history, current[l.e])
                /\ \A i \in 1..Len(calls) :
                     calls[i].kind = "OnEnter" =>
                        \E s \in targets :
                            /\ calls[i].idx \in 1..Len(Get(onEnter, s))
                            /\ calls[i].id = Get(onEnter, s)[calls[i].idx]
                /\ passed = {} => l.err # NilErr /\ Untouched(t)
                /\ /\ Cardinality(passed) = 1
                   /\ \A i \in 1..Len(calls) : calls[i].outcome.kind = "nil"
                   => l.err = NilErr

\* The guard of a --go--> b returned false, the guard of a --go--> c true,
\* and the engine went to c.
C6_Witness ==
    \E t \in Threads :
        /\ Returned(t, "Trigger") /\ last[t].err = NilErr
        /\ \E j \in 1..Len(log[t]) :
             log[t][j].kind = "Guard" /\ log[t][j].id = "g1" /\ log[t][j].outcome = "false"
        /\ current[last[t].e] = "c"

(***************************************************************************)
(* C7: when an exit callback, a transition hook or an entry callback       *)
(* returns an error or panics during Trigger, or an entry callback during  *)
(* CallEnter, the call returns an ErrCallback: HookType OnExit with the    *)
(* source state, OnTransition with no state, or OnEnter with the target    *)
(* state, wrapping the returned error or the panic value; current and      *)
(* history stay as they were.                                              *)
(***************************************************************************)
C7_CallbackFailureIsWrapped ==
    \A t \in Threads :
        /\ Returned(t, "Trigger") \/ Returned(t, "CallEnter")
        /\ Calls(log[t]) # <<>>
        /\ Last(Calls(log[t])).outcome.kind # "nil"
        => LET l     == last[t]
               c     == Last(Calls(log[t]))
               cause == IF c.outcome.kind = "panic" THEN PanicError(c.outcome.cause)
                                                    ELSE Error(c.outcome.cause)
               state == CASE c.kind = "OnExit"       -> {l.pre.current}
                          [] c.kind = "OnTransition" -> {NoState}
                          [] l.op = "CallEnter"      -> {l.arg}
                          [] OTHER -> PassedTargets(l.pre.current, l.arg.event, log[t])
           IN  /\ \E s \in state : state = {s} /\ l.err = ErrCallback(c.kind, s, cause)
               /\ Untouched(t)

\* A transition hook panicked after the exit callbacks of a ran.
C7_Witness ==
    \E t \in Threads :
        /\ Returned(t, "Trigger")
        /\ last[t].err = ErrCallback("OnTransition", NoState, PanicError("boom"))
        /\ Len(Calls(log[t])) = 3

(***************************************************************************)
(* C8: a panic raised inside a guard while Trigger evaluates it is         *)
(* contained: Trigger returns an ErrCallback, and current and history stay *)
(* as they were.                                                           *)
(***************************************************************************)
C8_GuardPanicIsContained ==
    \A t \in Threads :
        /\ Returned(t, "Trigger")
        /\ \E j \in 1..Len(log[t]) : log[t][j].kind = "Guard" /\ log[t][j].outcome = "panic"
        => /\ last[t].err.kind = "ErrCallback"
           /\ Untouched(t)

(***************************************************************************)
(* C9: in every reachable state of an engine, after any sequence of        *)
(* Trigger, CallEnter, SetState, Reset and UnmarshalJSON calls, history is *)
(* not empty and its first entry is the initial state.                     *)
(***************************************************************************)
C9_HistoryStartsAtInitial ==
    \A e \in Engines : history[e] # <<>> /\ history[e][1] = initial

(***************************************************************************)
(* C10: after any completed call (Trigger, CallEnter, SetState, Reset,     *)
(* UnmarshalJSON, whatever it returned) current equals Context.State.      *)
(***************************************************************************)
C10_CurrentIsContextState ==
    (\A t \in Threads : Idle(t)) => \A e \in Engines : current[e] = ctx[e].State

(***************************************************************************)
(* C10 as amended: current equals Context.State after a Trigger that       *)
(* returned nil or failed in an exit callback, after SetState, after Reset *)
(* and after an UnmarshalJSON that returned nil.  After CallEnter(s)       *)
(* Context.State is s, and after a Trigger that failed in a hook or an     *)
(* entry callback it is the target of the matched transition.              *)
(***************************************************************************)
C10_ContextStateAfterCall ==
    \A t \in Threads :
        Idle(t) =>
            LET l == last[t]
            IN  /\ /\ l.op = "Trigger"
                   /\ l.err = NilErr \/ (l.err.kind = "ErrCallback" /\ l.err.HookType = "OnExit")
                   => current[l.e] = ctx[l.e].State
                /\ l.op \in {"SetState", "Reset"} => current[l.e] = ctx[l.e].State
                /\ l.op = "UnmarshalJSON" /\ l.err = NilErr => current[l.e] = ctx[l.e].State
                /\ l.op = "CallEnter" => ctx[l.e].State = l.arg
                /\ /\ l.op = "Trigger"
                   /\ l.err.kind = "ErrCallback"
                   /\ l.err.HookType \in {"OnTransition", "OnEnter"}
                   => PassedTargets(l.pre.current, l.arg.event, log[t]) = {ctx[l.e].State}

\* A Trigger from a failed in the second exit callback of a.
C10_Witness ==
    \E t \in Threads :
        /\ Returned(t, "Trigger")
        /\ last[t].err = ErrCallback("OnExit", "a", Error("boom"))
        /\ Len(Calls(log[t])) = 2

(***************************************************************************)
(* C11: a snapshot decode that returns an error (the payload does not      *)
(* parse, its current is unknown, or one of its history entries is         *)
(* unknown) leaves current, history, Context.Data and Context.Meta of the  *)
(* engine exactly as they were before the call.                            *)
(***************************************************************************)
C11_FailedDecodeChangesNothing ==
    \A t \in Threads :
        Returned(t, "UnmarshalJSON") /\ last[t].err # NilErr
        => Persisted(last[t].e) = last[t].pre.state

\* A payload with a configured current other than the engine's, a Data entry
\* the engine lacks and an unknown history entry was refused by an engine
\* that has moved.
C11_Witness ==
    \E t \in Threads :
        /\ Returned(t, "UnmarshalJSON")
        /\ last[t].err.kind = "ErrUnknownState"
        /\ last[t].arg.current \in States
        /\ last[t].arg.current # current[last[t].e]
        /\ jsonUnmarshal(last[t].arg).state.Data # ctx[last[t].e].Data
        /\ Len(history[last[t].e]) > 1

(***************************************************************************)
(* C12: decode validates the payload against States() of the engine: when  *)
(* the payload's current is not in States() the error is UnknownState of   *)
(* current, whatever history holds; otherwise, when some history entry is  *)
(* not in States(), the error is UnknownState of the first such entry in   *)
(* history order.                                                          *)
(***************************************************************************)
C12_UnknownStateNamesFirstOffender ==
    \A t \in Threads :
        Returned(t, "UnmarshalJSON") /\ last[t].arg.wellFormed /\ last[t].arg.fields = Fields
        => LET p   == last[t].arg
               bad == {i \in 1..Len(p.history) : p.history[i] \notin States}
           IN  /\ p.current \notin States => last[t].err = ErrUnknownState(p.current)
               /\ p.current \in States /\ bad # {}
                  => \E i \in bad : /\ \A j \in bad : i <= j
                                    /\ last[t].err = ErrUnknownState(p.history[i])

\* A payload with a configured current and two different unknown history
\* entries was refused with the first of them.
C12_Witness ==
    \E t \in Threads :
        /\ Returned(t, "UnmarshalJSON")
        /\ last[t].arg.fields = Fields
        /\ last[t].arg.current \in States
        /\ Len(last[t].arg.history) = 2
        /\ last[t].arg.history[1] \notin States
        /\ last[t].arg.history[2] \notin States
        /\ last[t].arg.history[1] # last[t].arg.history[2]
        /\ last[t].err = ErrUnknownState(last[t].arg.history[1])

(***************************************************************************)
(* C13: decoding the encoding of an engine into an engine of the same      *)
(* configuration succeeds and leaves it with the current, history, Data    *)
(* and Meta the encoded engine had.  Stated for the engine that is fed its *)
(* own encoding.                                                           *)
(***************************************************************************)
C13_RoundTripRestores ==
    \A t \in Threads :
        /\ Returned(t, "UnmarshalJSON")
        /\ last[t].pre.noted
        /\ last[t].arg = jsonMarshal(last[t].pre.state)
        => /\ last[t].err = NilErr
           /\ Persisted(last[t].e) = last[t].pre.state

(***************************************************************************)
(* C14: a payload that parses but lacks one of the keys current, history,  *)
(* data, meta is refused with an error and changes nothing.                *)
(***************************************************************************)
C14_IncompletePayloadRejected ==
    \A t \in Threads :
        /\ Returned(t, "UnmarshalJSON")
        /\ last[t].arg.wellFormed
        /\ last[t].arg.fields # Fields
        => /\ last[t].err # NilErr
           /\ Persisted(last[t].e) = last[t].pre.state

(***************************************************************************)
(* C17: from any reachable state, Reset sets current to initial, history   *)
(* to [initial] and installs a fresh Context (State = initial, Data and    *)
(* Meta empty, Input cleared); the configuration is unchanged and no       *)
(* guard, callback or hook is called.                                      *)
(***************************************************************************)
C17_ResetRestoresInitial ==
    \A t \in Threads :
        Returned(t, "Reset")
        => LET e == last[t].e
           IN  /\ current[e] = initial
               /\ history[e] = <<initial>>
               /\ ctx[e].State = initial
               /\ \A k \in Keys : ctx[e].Data[k] = NoVal /\ ctx[e].Meta[k] = NoVal
               /\ ctx[e].Input = Nil
               /\ cfgVars = last[t].pre.cfg
               /\ log[t] = <<>>

\* Reset was applied to an engine that had moved, whose history had grown,
\* whose Data and Meta held entries and whose Context held an input.
C17_Witness ==
    \E t \in Threads :
        /\ Returned(t, "Reset")
        /\ last[t].pre.state.current # initial
        /\ Len(last[t].pre.state.history) > 1
        /\ \E k \in Keys : last[t].pre.state.Data[k] # NoVal /\ last[t].pre.state.Meta[k] # NoVal
        /\ last[t].pre.Input # Nil

(***************************************************************************)
(* C18: SetState(s), for a configured or an unconfigured label s, sets     *)
(* current and Context.State to s, calls no guard, callback or hook, and   *)
(* leaves history, Data, Meta, Input and the configuration unchanged.      *)
(***************************************************************************)
C18_SetStateForcesStateOnly ==
    \A t \in Threads :
        Returned(t, "SetState")
        => LET e == last[t].e
           IN  /\ current[e] = last[t].arg
               /\ ctx[e].State = last[t].arg
               /\ log[t] = <<>>
               /\ Kept(e) = last[t].pre

\* An engine with a grown history, Data and Input was forced to a label
\* that is in no transition.
C18_Witness ==
    \E t \in Threads :
        /\ Returned(t, "SetState")
        /\ last[t].arg \notin States
        /\ Len(history[last[t].e]) > 1
        /\ Last(history[last[t].e]) # last[t].arg
        /\ \E k \in Keys : ctx[last[t].e].Data[k] # NoVal
        /\ ctx[last[t].e].Input # Nil

(***************************************************************************)
(* C19: CallEnter(state) calls the entry callbacks registered for state,   *)
(* in registration order, up to and including the first that fails, and    *)
(* no other user code; it sets Context.State to state and leaves current,  *)
(* history and Input unchanged whether it succeeds or fails; for a state   *)
(* without entry callbacks, configured or not, it returns nil.             *)
(***************************************************************************)
C19_CallEnterRunsEntryCallbacksOnly ==
    \A t \in Threads :
        Returned(t, "CallEnter")
        => LET e     == last[t].e
               state == last[t].arg
               cbs   == Get(onEnter, state)
               calls == log[t]
               n     == Len(calls)
           IN  /\ n <= Len(cbs)
               /\ \A i \in 1..n : /\ calls[i].kind = "OnEnter"
                                  /\ calls[i].idx = i
                                  /\ calls[i].id = cbs[i]
                                  /\ i < n => calls[i].outcome.kind = "nil"
               /\ IF n > 0 /\ calls[n].outcome.kind # "nil"
                    THEN last[t].err.kind = "ErrCallback"
                    ELSE n = Len(cbs) /\ last[t].err = NilErr
               /\ ctx[e].State = state
               /\ current[e] = last[t].pre.current
               /\ history[e] = last[t].pre.history
               /\ ctx[e].Input = last[t].pre.Input

\* CallEnter of a state with two entry callbacks, other than current, on an
\* engine with a grown history and an input: the second callback failed.
C19_Witness ==
    \E t \in Threads :
        /\ Returned(t, "CallEnter")
        /\ last[t].err.kind = "ErrCallback"
        /\ Len(log[t]) = 2
        /\ current[last[t].e] # last[t].arg
        /\ Len(history[last[t].e]) > 1
        /\ ctx[last[t].e].Input # Nil

(***************************************************************************)
(* The operations of the facade as the specification classes them.         *)
(***************************************************************************)
MutatingOps == {"Trigger", "Reset", "SetState", "CallEnter", "UnmarshalJSON"}
ReadOnlyOps == {"Current", "Context", "History", "States", "MarshalJSON", "ToDOT"}

\* Thread t is executing operation op of facade s: it holds the lock of s
\* and has not released it.
Executing(t, s, ops) ==
    caller[t].pc = "in" /\ caller[t].sync = s /\ caller[t].op \in ops

(***************************************************************************)
(* C15: on one facade, under every interleaving of its callers, while a    *)
(* mutating operation (Trigger, Reset, SetState, CallEnter, UnmarshalJSON) *)
(* is executing no other operation, mutating or read-only, is executing.   *)
(***************************************************************************)
C15_MutatingOperationsAreAlone ==
    \A s \in DOMAIN mu : \A t1, t2 \in DOMAIN caller :
        t1 # t2 /\ Executing(t1, s, MutatingOps)
        => ~Executing(t2, s, MutatingOps \cup ReadOnlyOps)

\* A trigger is between two of its callbacks while the other thread is
\* blocked in a read of the same facade.
C15_Witness ==
    \E s \in DOMAIN mu : \E t1, t2 \in DOMAIN caller :
        /\ Executing(t1, s, {"Trigger"})
        /\ InFlight(t1, "Trigger", "hook")
        /\ caller[t2].pc = "lock"
        /\ caller[t2].sync = s
        /\ caller[t2].op \in ReadOnlyOps

(***************************************************************************)
(* C16: read-only operations of one facade share the lock: a thread that   *)
(* asks for the read lock while no mutating operation is executing or      *)
(* waiting gets it, other readers or not; so two readers can be inside     *)
(* their critical sections at the same time.                               *)
(***************************************************************************)
C16_ReadersShareTheLock ==
    \A s \in DOMAIN mu : \A t \in DOMAIN caller :
        /\ caller[t].pc = "lock"
        /\ caller[t].sync = s
        /\ caller[t].op \in ReadOnlyOps
        /\ \A u \in DOMAIN caller :
             ~Executing(u, s, MutatingOps)
             /\ ~(caller[u].pc = "lock" /\ caller[u].sync = s /\ caller[u].op \in MutatingOps)
        => ENABLED RLock(t)

\* Two threads are in read-only methods of one facade, both holding its
\* read lock.
C16_Witness ==
    \E s \in DOMAIN mu : \E t1, t2 \in DOMAIN caller :
        /\ t1 # t2
        /\ Executing(t1, s, ReadOnlyOps)
        /\ Executing(t2, s, ReadOnlyOps)
        /\ mu[s].r = 2
        /\ ~mu[s].w
(***************************************************************************)
(* A template and its clones.                                              *)
(***************************************************************************)
\* Engine e is as a new engine is: at initial, with a history of initial
\* alone and an empty Context.
Fresh(e) ==
    /\ current[e] = initial
    /\ history[e] = <<initial>>
    /\ ctx[e] = newContext(initial)

\* The engine t's call is applied to: the call in flight, or else the call
\* it completed last.
ActingEngine(t) == IF Idle(t) THEN last[t].e ELSE Top(t).e

\* A step leaves current, history, Data and Meta of every engine alone but
\* those of the engine the call is applied to.
OthersUnchanged ==
    \A e \in DOMAIN current :
        (\A t \in Threads : ActingEngine(t)' # e) => Persisted(e)' = Persisted(e)

\* The engine the latest Clone made is as a new engine is.
CloneIsFresh ==
    \A t \in Threads : Returned(t, "Clone") => Fresh(last[t].arg)

Given(input) == IF Len(input) > 0 THEN input[1] ELSE Nil

C21_TriggerOverwritesInput ==
    \A t \in Threads :
        /\ ~Idle(t) /\ Top(t).op = "Trigger" => ctx[Top(t).e].Input = Given(Top(t).arg.input)
        /\ Returned(t, "Trigger") => ctx[last[t].e].Input = Given(last[t].arg.input)

\* A trigger called with two inputs failed in an exit callback.
C21_Witness ==
    \E t \in Threads :
        /\ Returned(t, "Trigger")
        /\ last[t].err.kind = "ErrCallback" /\ last[t].err.HookType = "OnExit"
        /\ Len(last[t].arg.input) = 2
        /\ ctx[last[t].e].Input = last[t].arg.input[1]

(***************************************************************************)
(* C22: in a Trigger with source p, matched target n and event ev, every   *)
(* exit callback sees Context.State = p; every transition hook is called   *)
(* with (p, n, ev) and sees Context.State = n while current is still p;    *)
(* every entry callback sees Context.State = n.                            *)
(***************************************************************************)
C22_CallbacksSeeSourceThenTarget ==
    \A t \in Threads :
        Returned(t, "Trigger")
        => LET p     == last[t].pre.current
               ev    == last[t].arg.event
               calls == Calls(log[t])
           IN  \A n \in PassedTargets(p, ev, log[t]) :
               \A i \in 1..Len(calls) :
                   /\ calls[i].kind = "OnExit" => calls[i].seenState = p
                   /\ calls[i].kind = "OnTransition"
                        => /\ calls[i].args = <<p, n, ev>>
                           /\ calls[i].seenState = n
                           /\ calls[i].seenCurrent = p
                   /\ calls[i].kind = "OnEnter" => calls[i].seenState = n

\* A trigger from a to b ran its exit callbacks, its hooks and the entry
\* callbacks of b, the last of which returned an error.
C22_Witness ==
    \E t \in Threads :
        /\ Returned(t, "Trigger")
        /\ last[t].err.kind = "ErrCallback" /\ last[t].err.HookType = "OnEnter"
        /\ last[t].pre.current = "a"
        /\ PassedTargets("a", last[t].arg.event, log[t]) = {"b"}
        /\ {"OnExit", "OnTransition", "OnEnter"}
             \subseteq {Calls(log[t])[i].kind : i \in 1..Len(Calls(log[t]))}

(***************************************************************************)
(* C23: Trigger commits only after all callbacks: at every point of a      *)
(* Trigger up to and including the last entry callback of the target,      *)
(* current and history are what they were when the call began, and every   *)
(* callback and hook of the call saw current at that value; so none sees   *)
(* current at a target whose entry callbacks then fail.                    *)
(***************************************************************************)
C23_CommitAfterAllCallbacks ==
    \A t \in Threads :
        /\ ~Idle(t) /\ Top(t).op = "Trigger"
             => /\ current[Top(t).e] = Top(t).pre.current
                /\ history[Top(t).e] = Top(t).pre.history
                /\ \A i \in 1..Len(log[t]) : log[t][i].seenCurrent = Top(t).pre.current
        /\ Returned(t, "Trigger")
             => \A i \in 1..Len(log[t]) : log[t][i].seenCurrent = last[t].pre.current

\* The last entry callback of the target has returned nil and the trigger
\* has not committed yet: current is still the source.
C23_Witness ==
    \E t \in Threads :
        /\ InFlight(t, "Trigger", "enter")
        /\ Top(t).idx > Len(Get(onEnter, Top(t).nextState))
        /\ Top(t).idx > 1
        /\ Top(t).nextState # current[Top(t).e]

(***************************************************************************)
(* A failure inside a Trigger.                                             *)
(***************************************************************************)
\* s is the beginning of q.
IsPrefix(s, q) == Len(s) <= Len(q) /\ SubSeq(q, 1, Len(s)) = s

\* The trigger t returned from stopped at the first exit callback, hook or
\* entry callback that failed: that call is the last one made, the calls
\* before it returned nil, and the calls made are a beginning of the exit
\* callbacks of the source, the hooks and the entry callbacks of the target.
StoppedAtFirstFailure(t) ==
    LET p     == last[t].pre.current
        calls == Calls(log[t])
        n     == Len(calls)
    IN  /\ n >= 1
        /\ calls[n].outcome.kind # "nil"
        /\ calls[n].kind = last[t].err.HookType
        /\ \A i \in 1..(n - 1) : calls[i].outcome.kind = "nil"
        /\ \E to \in PassedTargets(p, last[t].arg.event, log[t]) :
             IsPrefix([i \in 1..n |-> <<calls[i].kind, calls[i].id>>],
                      Tagged("OnExit", Get(onExit, p))
                        \o Tagged("OnTransition", onTransition)
                        \o Tagged("OnEnter", Get(onEnter, to)))

\* A step of a Trigger in flight, its return included, removes no entry of
\* Data or Meta and leaves Input alone.
KeepsEffects ==
    \A t \in Threads :
        ~Idle(t) /\ Top(t).op = "Trigger"
        => LET e == Top(t).e
           IN  /\ ctx'[e].Input = ctx[e].Input
               /\ \A k \in Keys :
                    /\ ctx[e].Data[k] # NoVal => ctx'[e].Data[k] # NoVal
                    /\ ctx[e].Meta[k] # NoVal => ctx'[e].Meta[k] # NoVal

(***************************************************************************)
(* C24: the first exit callback, hook or entry callback of a Trigger that  *)
(* fails aborts the Trigger: nothing later in the sequence exit callbacks, *)
(* hooks, entry callbacks is called; what the callbacks that ran wrote to  *)
(* Data and Meta, and the input the Trigger stored, stay.                  *)
(***************************************************************************)
C24_FirstFailureAborts ==
    /\ [](\A t \in Threads :
            Returned(t, "Trigger") /\ last[t].err.kind = "ErrCallback"
            => StoppedAtFirstFailure(t))
    /\ [][KeepsEffects]_vars

\* The first of two hooks failed after both exit callbacks ran: the second
\* hook and the entry callbacks were not called, and the Context holds the
\* input and entries in Data and Meta.
C24_Witness ==
    \E t \in Threads :
        /\ Returned(t, "Trigger")
        /\ last[t].err.kind = "ErrCallback" /\ last[t].err.HookType = "OnTransition"
        /\ Len(Calls(log[t])) = 3
        /\ Len(onTransition) = 2
        /\ ctx[last[t].e].Input # Nil
        /\ \E k \in Keys : ctx[last[t].e].Data[k] # NoVal /\ ctx[last[t].e].Meta[k] # NoVal

(***************************************************************************)
(* The states the table was built from.                                    *)
(***************************************************************************)
\* The sets of states States may return, one for each order of the scan.
StatesSets(f) == {Range(StatesSlice(f, o)) : o \in KeyOrders(f)}

\* The configuration after the step.
ConfigurationAfter ==
    [initial |-> initial', transitions |-> transitions', onEnter |-> onEnter',
     onExit |-> onExit', onTransition |-> onTransition']

\* A step that registers a transition adds its source and its target to
\* what States returns; any other step leaves what States returns alone.
RegistrationsDecide ==
    IF transitions' # transitions
      THEN \E t \in Threads :
             /\ last'[t].op = "Transition"
             /\ StatesSets(ConfigurationAfter)
                  = {S \cup {last'[t].arg.from, last'[t].arg.to} : S \in StatesSets(Configuration)}
      ELSE StatesSets(ConfigurationAfter) = StatesSets(Configuration)

(***************************************************************************)
(* C25: States returns exactly the initial state, the sources and the      *)
(* targets of the registered transitions, each once; a state that only     *)
(* has entry or exit callbacks, or that only SetState named, is not in it. *)
(***************************************************************************)
C25_StatesAreInitialSourcesTargets ==
    /\ StatesSets(Configuration) = {{initial}}
    /\ [](\A o \in KeyOrders(Configuration) :
            Len(StatesSlice(Configuration, o)) = Cardinality(Range(StatesSlice(Configuration, o))))
    /\ [][RegistrationsDecide]_vars

\* Transitions a -> b, b -> a and a -> a are registered, d has an entry and
\* an exit callback, SetState has put the engine in d: States returns a and
\* b.
C25_Witness ==
    /\ StatesSets(Configuration) = {{"a", "b"}}
    /\ "b" \in DOMAIN transitions
    /\ Len(Get(transitions, "a")) = 2
    /\ "d" \in DOMAIN onEnter \cap DOMAIN onExit
    /\ \E e \in Engines : current[e] = "d"

(***************************************************************************)
(* The values a caller keeps.                                              *)
(***************************************************************************)
\* The calls of a caller that are about the value it keeps, not the engine.
KeeperOps == {"History", "MarshalJSON", "Context", "h[i] = x"}

\* An assignment to an element of a slice History returned leaves the
\* history of every engine alone, and a step of an engine leaves alone the
\* slice and the snapshot a caller keeps.
CopyIsolated ==
    \A t \in Threads :
        /\ last'[t].op = "h[i] = x" /\ held'[t] # held[t] => history' = history
        /\ last'[t].op \notin KeeperOps
             => /\ held'[t].list = held[t].list
                /\ held'[t].snapshot = held[t].snapshot

(***************************************************************************)
(* C26: History and MarshalJSON return copies of history: a write to the   *)
(* slice History returned never changes the engine's history, and a later  *)
(* trigger (or any other call) on the engine never changes a slice or a    *)
(* snapshot returned before.                                               *)
(***************************************************************************)
C26_ReturnedHistoryIsACopy == [][CopyIsolated]_vars

\* The caller wrote to the first element of the slice History returned and
\* the engine then committed a trigger: the slice is shorter than the
\* engine's history, which still begins with the initial state.
C26_Witness ==
    \E t \in Threads, e \in Engines :
        /\ Returned(t, "Trigger") /\ last[t].err = NilErr /\ last[t].e = e
        /\ Len(held[t].list) > 1
        /\ held[t].list[1] = "x"
        /\ Len(history[e]) > Len(held[t].list)
        /\ history[e][1] = initial

(***************************************************************************)
(* History in normal operation.                                            *)
(***************************************************************************)
\* A step keeps the history of every engine as the beginning of its history
\* after the step, unless it is a Reset or a decode that returned nil.
OnlyResetAndDecodeRewrite ==
    \A e \in DOMAIN history :
        \/ IsPrefix(history[e], history'[e])
        \/ \E t \in Threads :
             /\ last'[t].e = e
             /\ \/ last'[t].op = "Reset"
                \/ last'[t].op = "UnmarshalJSON" /\ last'[t].err = NilErr

(***************************************************************************)
(* C27: history is append-only in normal operation: the history before a   *)
(* Trigger, CallEnter or SetState call, successful or failed, is a         *)
(* beginning of the history after it; only Reset and a snapshot decode     *)
(* that succeeds shorten or rewrite history.                               *)
(***************************************************************************)
C27_HistoryIsAppendOnly ==
    /\ [](\A t \in Threads :
            Idle(t) /\ last[t].op \in {"Trigger", "CallEnter", "SetState"}
            => IsPrefix(last[t].pre.history, history[last[t].e]))
    /\ [][OnlyResetAndDecodeRewrite]_vars

\* A trigger committed on an engine whose history held two entries or more:
\* the history is the one before the call and the target.
C27_Witness ==
    \E t \in Threads :
        /\ Returned(t, "Trigger") /\ last[t].err = NilErr
        /\ Len(last[t].pre.history) >= 2
        /\ history[last[t].e] = Append(last[t].pre.history, current[last[t].e])

(***************************************************************************)
(* C28: a snapshot decode that succeeds replaces the Context of the        *)
(* engine as a whole, as Reset does: the input an earlier Trigger left is  *)
(* gone, and a pointer to the Context obtained before the decode is no     *)
(* longer a pointer to the Context of the engine.                          *)
(***************************************************************************)
C28_DecodeReplacesContext ==
    \A t \in Threads :
        Returned(t, "UnmarshalJSON") /\ last[t].err = NilErr
        => /\ ctx[last[t].e].Input = Nil
           /\ \A u \in Threads : held[u].context # Context(last[t].e)

(***************************************************************************)
(* C29: one engine is guarded by one reader/writer lock: while a mutating  *)
(* operation is executing on an engine, through whichever facade Sync      *)
(* returned for it, no other operation, mutating or read-only, is          *)
(* executing on that engine.                                               *)
(***************************************************************************)
C29_OneLockPerEngine ==
    \A t1, t2 \in DOMAIN caller :
        /\ t1 # t2
        /\ caller[t1].pc = "in" /\ caller[t1].op \in MutatingOps
        /\ caller[t2].pc = "in" /\ caller[t2].op \in MutatingOps \cup ReadOnlyOps
        => Wrapped(caller[t1].sync) # Wrapped(caller[t2].sync)

(***************************************************************************)
(* Trigger calls run one at a time.                                        *)
(***************************************************************************)
\* Trigger(event) on an engine in state st (current and history) whose
\* configuration has no guards and no callbacks: the error and the state
\* after the call.
SerialTrigger(st, event) ==
    LET list    == Get(transitions, st.current)
        matched == {i \in 1..Len(list) : list[i].event = event}
    IN  IF matched = {}
          THEN [err |-> ErrInvalidTransition(st.current, event), st |-> st]
          ELSE IF Cardinality(matched) > 1
          THEN [err |-> ErrAmbiguousTransition(st.current, event), st |-> st]
          ELSE LET to == list[CHOOSE i \in matched : TRUE].to
               IN  [err |-> NilErr,
                    st  |-> [current |-> to, history |-> Append(st.history, to)]]

\* Both goroutines have their error.
BothReturned == \A t \in SyncThreads : held[t].result # <<>>

\* The errors kept and the engine are those of the call of first followed
\* by the call of second, from the new engine.
InOrder(first, second) ==
    LET r1 == SerialTrigger([current |-> initial, history |-> <<initial>>],
                            held[first].result[1].event)
        r2 == SerialTrigger(r1.st, held[second].result[1].event)
    IN  /\ held[first].result[1].err = r1.err
        /\ held[second].result[1].err = r2.err
        /\ \A e \in Engines : Snapshot(e) = r2.st

(***************************************************************************)
(* C30: Trigger calls made concurrently on one facade are linearizable:    *)
(* the errors returned and the final current and history are those of the  *)
(* same calls run one at a time in some order.  When the two events are    *)
(* both possible only in the state the engine is in, exactly one call      *)
(* returns nil, the other returns ErrInvalidTransition and history grows   *)
(* by one entry.                                                           *)
(***************************************************************************)
C30_ConcurrentTriggersLinearize ==
    BothReturned
    => /\ \E first, second \in SyncThreads : first # second /\ InOrder(first, second)
       /\ (\A t \in SyncThreads : held[t].result[1].event \in {"cancel", "timeout"})
            => /\ \E t, u \in SyncThreads :
                    /\ t # u
                    /\ held[t].result[1].err = NilErr
                    /\ held[u].result[1].err.kind = "ErrInvalidTransition"
               /\ \A e \in Engines : Len(history[e]) = 2

\* One goroutine cancelled while the other, waiting for the lock, was about
\* to report the timeout: the timeout was refused from Canceled.
C30_Witness ==
    /\ BothReturned
    /\ \E t, u \in SyncThreads :
         /\ held[t].result[1] = [event |-> "cancel", err |-> NilErr, contended |-> TRUE]
         /\ held[u].result[1].event = "timeout"
         /\ held[u].result[1].err = ErrInvalidTransition("Canceled", "timeout")

GuardCalls(lg) == SelectSeq(lg, LAMBDA c : c.kind = "Guard")

\* Every callback and hook of the call returned nil.
AllSucceeded(lg) == \A i \in 1..Len(lg) : lg[i].kind = "Guard" \/ lg[i].outcome.kind = "nil"

\* The first of the transitions from s that passed for event.
FirstPassed(s, event, lg) ==
    CHOOSE i \in PassedFrom(s, event, lg) : \A j \in PassedFrom(s, event, lg) : i <= j

C34_SelfTransitionIsOrdinary ==
    \A t \in Threads :
        /\ Returned(t, "Trigger") /\ last[t].err = NilErr
        /\ PassedTargets(last[t].pre.current, last[t].arg.event, log[t]) = {last[t].pre.current}
        => LET l     == last[t]
               s     == l.pre.current
               calls == Calls(log[t])
           IN  /\ [i \in 1..Len(calls) |-> <<calls[i].kind, calls[i].id>>]
                     = Tagged("OnExit", Get(onExit, s))
                         \o Tagged("OnTransition", onTransition)
                         \o Tagged("OnEnter", Get(onEnter, s))
               /\ \A i \in 1..Len(calls) :
                     calls[i].kind = "OnTransition" => calls[i].args = <<s, s, l.arg.event>>
               /\ current[l.e] = s
               /\ history[l.e] = Append(l.pre.history, s)
               /\ history[l.e][Len(history[l.e]) - 1] = Last(history[l.e])

\* The enraged NPC is hit again: exit callback, hook and entry callback of
\* Enraged ran and history names Enraged twice in a row.
C34_Witness ==
    \E t \in Threads :
        /\ Returned(t, "Trigger") /\ last[t].err = NilErr
        /\ last[t].pre.current = "enraged"
        /\ [i \in 1..Len(log[t]) |-> log[t][i].id]
             = <<"isNearDeath", "exit_enraged", "hook1", "enter_enraged">>
        /\ current[last[t].e] = "enraged"
        /\ history[last[t].e] = <<"attacking", "enraged", "enraged">>

\* The positions, in the list of state s, of the transitions of event that
\* have a guard, in registration order.
Guarded(s, event) ==
    LET list == Get(transitions, s)
    IN  SelectSeq([i \in 1..Len(list) |-> i],
                  LAMBDA i : list[i].event = event /\ list[i].guard # Nil)

\* The positions and names of the guards the test double saw called.
GuardsCalled(lg) == [i \in 1..Len(GuardCalls(lg)) |-> GuardCalls(lg)[i].idx]

\* No guard was called after a callback or hook.
GuardsFirst(lg) ==
    \A i, j \in 1..Len(lg) : lg[i].kind = "Guard" /\ lg[j].kind # "Guard" => i < j

\* Each call named the guard registered at its position from state s.
GuardsOf(s, lg) ==
    \A i \in 1..Len(lg) :
        lg[i].kind = "Guard" => lg[i].id = Get(transitions, s)[lg[i].idx].guard

Edge(a, b) == \E i \in 1..Len(Get(transitions, a)) : transitions[a][i].to = b

(***************************************************************************)
(* C38: on a new engine driven only by Trigger, CallEnter and Reset calls  *)
(* that are not nested, in every state current is the last entry of        *)
(* history, history begins with initial, and every two consecutive entries *)
(* of history are joined by a transition of the configuration: history is  *)
(* a path of the transition graph from initial.                            *)
(***************************************************************************)
C38_HistoryIsAPath ==
    \A e \in DOMAIN current :
        /\ history[e] # <<>>
        /\ current[e] = Last(history[e])
        /\ history[e][1] = initial
        /\ \A i \in 1..(Len(history[e]) - 1) : Edge(history[e][i], history[e][i + 1])

\* After a CallEnter or a Reset of its owner, and a callback that wrote to
\* the Context, a trigger took the engine from a to c.
C38_Witness ==
    \E t \in Threads :
        /\ Returned(t, "Trigger") /\ last[t].err = NilErr
        /\ ~onlyTriggers
        /\ history[last[t].e] = <<"a", "c">>
        /\ ctx[last[t].e].Data # EmptyMap

\* The FSMState a payload parses into.
Parsed(data) == jsonUnmarshal(data).state

(***************************************************************************)
(* C39: UnmarshalJSON of a payload that parses returns nil exactly when    *)
(* the payload's current and every entry of its history are in States();   *)
(* nothing else is asked of history (it may be empty, begin with another   *)
(* state than initial, end with another state than current, or join states *)
(* no transition joins); and when it returns nil, current, history, Data   *)
(* and Meta of the engine are the payload's.                               *)
(***************************************************************************)
C39_DecodeValidatesLabelsOnly ==
    \A t \in Threads :
        Returned(t, "UnmarshalJSON") /\ last[t].arg.wellFormed =>
            LET st == Parsed(last[t].arg)
            IN  /\ last[t].err = NilErr <=>
                     /\ st.Current \in States
                     /\ \A i \in 1..Len(st.History) : st.History[i] \in States
                /\ last[t].err = NilErr =>
                     Persisted(last[t].e) =
                        [current |-> st.Current, history |-> st.History,
                         Data |-> st.Data, Meta |-> st.Meta]

\* The engine took a payload with current a and history [b, b]: the history
\* does not begin with initial, does not end with current and repeats b,
\* which has no transition to itself.
C39_Witness ==
    \E t \in Threads :
        /\ Returned(t, "UnmarshalJSON") /\ last[t].err = NilErr
        /\ last[t].arg.current = "a"
        /\ last[t].arg.history = <<"b", "b">>
        /\ current[last[t].e] = "a"
        /\ history[last[t].e] = <<"b", "b">>
        /\ ctx[last[t].e].Data = [k \in Keys |-> "v"]

\* The step is the commit of a Trigger of t, one of whose hooks or entry
\* callbacks called a Trigger that returned nil.
OuterCommit(t) ==
    /\ Len(stack[t]) = 1 /\ stack'[t] = <<>>
    /\ Top(t).op = "Trigger" /\ last'[t].err = NilErr
    /\ last[t].op = "Trigger" /\ last[t].err = NilErr

\* What holds of such a step: inner is the nested call, outer the frame of
\* the call that commits.
CommitsOverInner ==
    \A t \in Threads :
        OuterCommit(t) =>
            LET outer == Top(t)
                inner == last[t]
                e     == outer.e
            IN  /\ inner.pre.current = outer.previousState
                /\ inner.pre.history = outer.pre.history
                /\ \E i \in 1..Len(transitions[outer.previousState]) :
                        /\ transitions[outer.previousState][i].event = inner.arg.event
                        /\ transitions[outer.previousState][i].to = current[e]
                /\ history[e] = Append(outer.pre.history, current[e])
                /\ current'[e] = outer.nextState
                /\ history'[e] = outer.pre.history \o <<current[e], outer.nextState>>

(***************************************************************************)
(* C40: on the engine without facade, a Trigger called from a hook or an   *)
(* entry callback of a Trigger in flight is matched against the state the  *)
(* outer Trigger is leaving, which is still current, and not against the   *)
(* state it is entering; when it returns nil it has committed its own      *)
(* target, and when the outer Trigger then returns nil its commit comes on *)
(* top: current is the outer target and history is the history from before *)
(* the outer call followed by the inner target and the outer target.       *)
(***************************************************************************)
C40_InnerTriggerCommitsFirst == [][CommitsOverInner]_vars

\* hook1 of a --go--> b called Trigger(stay): the exit callbacks of a and
\* both hooks ran a second time inside it, and history is a, a, b.
C40_Witness ==
    \E t \in Threads :
        /\ Returned(t, "Trigger") /\ last[t].err = NilErr
        /\ last[t].arg.event = "go"
        /\ [i \in 1..Len(Calls(log[t])) |-> Calls(log[t])[i].id]
             = <<"exit_a1", "exit_a2", "exit_a1", "exit_a2", "hook1", "hook2",
                 "hook1", "hook2", "enter_b1", "enter_b2">>
        /\ current[last[t].e] = "b"
        /\ history[last[t].e] = <<"a", "a", "b">>

(***************************************************************************)
(* C33: a caller that holds the Context SyncFSM.Context() returned never   *)
(* reads a State or an Input that a Trigger still in flight wrote: at      *)
(* every read through the pointer, no engine call is in flight on the      *)
(* wrapped engine.                                                         *)
(***************************************************************************)
C33_HeldContextSeesCompletedCalls ==
    \A t \in DOMAIN held :
        \A i \in 1..Len(held[t].result) :
            "inFlight" \in DOMAIN held[t].result[i] => held[t].result[i].inFlight = {}

\* The threads that hold the write lock of facade s, and those that hold
\* its read lock.
Writers(s) ==
    {t \in DOMAIN caller : caller[t].pc = "in" /\ caller[t].sync = s /\ Exclusive(caller[t].op)}
Readers(s) ==
    {t \in DOMAIN caller : caller[t].pc = "in" /\ caller[t].sync = s /\ ~Exclusive(caller[t].op)}

\* The lock is held only by callers that are in a method: once a method has
\* returned or a panic has left it, its lock is released.
ReleasedOnExit ==
    \A s \in DOMAIN mu :
        /\ mu[s].w <=> Writers(s) # {}
        /\ mu[s].r = Cardinality(Readers(s))

(***************************************************************************)
(* C36: every facade method releases its lock however it ends (the         *)
(* wrapped method returns nil, returns an error, or a guard's panic leaves *)
(* it): the lock is held only by callers inside a method; and, callbacks   *)
(* returning and calling no facade, every caller that waits for the lock   *)
(* gets it and every caller in a method leaves it.                         *)
(***************************************************************************)
C36_LockReleasedOnEveryPath ==
    /\ []ReleasedOnExit
    /\ \A t \in SyncThreads : (caller[t].pc = "lock") ~> (caller[t].pc = "in")
    /\ \A t \in SyncThreads : (caller[t].pc = "in") ~> (caller[t].pc = "out")

\* A guard's panic has left the Trigger of one caller, whose deferred
\* Unlock is about to run, while the other caller waits for the lock.
C36_Witness ==
    \E t, u \in SyncThreads :
        /\ caller[t].pc = "in" /\ caller[t].op = "Trigger"
        /\ Idle(t) /\ last[t].err.kind = "panic"
        /\ mu[caller[t].sync].w
        /\ caller[u].pc = "lock" /\ caller[u].sync = caller[t].sync

\* A facade call made by the user code of thread t waits for the lock in
\* the next state as well, and the enclosing method of t has not moved.
StaysBlocked ==
    \A t \in SyncThreads :
        caller[Nested(t)].pc = "lock" =>
            /\ caller'[Nested(t)] = caller[Nested(t)]
            /\ caller'[t] = caller[t]
            /\ stack'[t] = stack[t]

\* A caller gets the lock only when no method that excludes it is in
\* progress: a call of another goroutine made while Trigger or CallEnter
\* runs goes on after that method has returned.
EntersAfterReturn ==
    \A u \in DOMAIN caller :
        caller[u].pc = "lock" /\ caller'[u].pc = "in" =>
            /\ Writers(caller[u].sync) = {}
            /\ Exclusive(caller[u].op) => Readers(caller[u].sync) = {}

(***************************************************************************)
(* C37: the lock of a facade is not re-entrant.  A guard, callback or hook *)
(* that runs in Trigger or CallEnter of a facade and calls a method of     *)
(* that facade, read-only or mutating, waits for the lock from then on,    *)
(* and the enclosing method never moves again; a call from another         *)
(* goroutine gets the lock only once the enclosing method has returned.    *)
(***************************************************************************)
C37_FacadeLockIsNotReentrant == [][StaysBlocked /\ EntersAfterReturn]_vars

\* The hook of a Trigger called Current() of the facade and waits; the
\* Trigger of the other goroutine waits behind it.
C37_Witness ==
    \E t, u \in SyncThreads :
        /\ caller[t].pc = "in" /\ caller[t].op = "Trigger"
        /\ InUserCode(t) /\ Top(t).pc = "hook"
        /\ caller[Nested(t)].pc = "lock" /\ caller[Nested(t)].op = "Current"
        /\ caller[u].pc = "lock" /\ caller[u].op = "Trigger"

====
